---- MODULE Spec2Model ----
(***************************************************************************)
(* State-machine model of the easyclaw order engine (programs/order_engine) *)
(* together with the parts of market_registry and lp_vault it reads and    *)
(* calls.  One market, its funding state, the traders' margin accounts,    *)
(* positions and orders, the token vaults and the pool bookkeeping.        *)
(*                                                                         *)
(* Every instruction is one action.  A handler is an operator from the     *)
(* accounts it is given to a result [err, acc]: err is "Ok" or the name   *)
(* of the error returned, acc the accounts as the handler left them in     *)
(* memory at the point of return.  The program entry writes the accounts   *)
(* back only when the handler returned Ok (Commit).                        *)
(***************************************************************************)
EXTENDS Integers, Sequences, FiniteSets, TLC

VARIABLES
    now,                    \* Clock::get().unix_timestamp
    global_config,          \* market_registry::GlobalConfig
    keeper_set,             \* market_registry::KeeperSet
    market,                 \* market_registry::Market
    market_funding_state,   \* MarketFundingState of the market
    user_margin,            \* UserMargin, per trader
    user_market_position,   \* UserMarketPosition, per trader
    orders,                 \* Order accounts, per trader, indexed by nonce + 1
    reserved,               \* ghost: amount debited at placement, per open order
    vaults,                 \* token balances: collateral and the pool's three vaults
    pool,                   \* lp_vault::Pool counters
    keeper_rebate,          \* lp_vault::KeeperRebate.amount, per keeper identity
    call                    \* a helper function applied on its own: name, arguments, result

vars == <<now, global_config, keeper_set, market, market_funding_state, user_margin,
          user_market_position, orders, reserved, vaults, pool, keeper_rebate, call>>

engine_vars == <<market_funding_state, user_margin, user_market_position, orders,
                 reserved, vaults, pool, keeper_rebate>>

registry_vars == <<global_config, keeper_set, market>>

-----------------------------------------------------------------------------
(* Bounds of the model *)

MaxTime == 2
MaxOrders == 2
\* u64 is modelled with 16 bits: values are below U64_MODULUS, and a cast to
\* u64 is the remainder modulo it.
U64_MODULUS == 65536

(* Program constants *)

BPS_DENOM == 10000
PRICE_SCALE == 1000
FUNDING_SCALE == 1000
MAX_KEEPERS == 2
SECONDS_PER_DAY == 86400
KEEPER_PENALTY_BPS == 1000
DEFAULT_LP_BPS == 7000
DEFAULT_INSURANCE_BPS == 2000
DEFAULT_PROTOCOL_BPS == 1000
DEFAULT_EXECUTION_REBATE_USDC == 1000

-----------------------------------------------------------------------------
(* Identities and inputs *)

MULTISIG == "ms"
Users == {"u1"}
KeeperCandidates == {"k1"}
Executors == {"ms", "k1", "u1"}
Admins == {"ms", "k1"}
\* The identities init_keeper_rebate has created a rebate account for.
RebateHolders == {"k1", "ms"}

Ok(v) == [err |-> "Ok", v |-> v]
Err(e) == [err |-> e]
IsOk(r) == r.err = "Ok"

Min(a, b) == IF a <= b THEN a ELSE b
Max(a, b) == IF a >= b THEN a ELSE b

\* Rust integer division truncates toward zero; b > 0 at every use.
TruncDiv(a, b) == IF a >= 0 THEN a \div b ELSE -((-a) \div b)

-----------------------------------------------------------------------------
(* helpers/math.rs *)

\* The product is taken in u128, where it cannot overflow, and BPS_DENOM is
\* not 0, so neither MathOverflow branch is taken; the quotient is cast to
\* u64, which keeps its low bits.
mul_bps_u64(value, bps) == ((value * bps) \div BPS_DENOM) % U64_MODULUS

abs_diff(a, b) == IF a > b THEN a - b ELSE b - a

(* helpers/access.rs *)

Contains(seq, x) == \E i \in 1..Len(seq) : seq[i] = x

assert_executor_authorized(executor, gc, ks) ==
    IF executor = gc.multisig THEN Ok(TRUE)
    ELSE IF ~Contains(ks.keepers, executor) THEN Err("UnauthorizedExecutor")
    ELSE Ok(TRUE)

\* Faulty variant of assert_keeper_only: every signer passes.
assert_anyone(executor, ks) == Ok(TRUE)

assert_keeper_only(executor, ks) ==
    IF ~Contains(ks.keepers, executor) THEN Err("UnauthorizedExecutor")
    ELSE Ok(TRUE)

(* helpers/reservation.rs *)

estimate_order_notional(margin, mkt) ==
    IF ~(margin > 0) THEN Err("InvalidAmount") ELSE Ok(margin)

estimate_order_reservation(reduce_only, margin, mkt) ==
    IF reduce_only THEN Ok(0)
    ELSE LET n == estimate_order_notional(margin, mkt) IN
         IF ~IsOk(n) THEN n
         ELSE LET imr == mul_bps_u64(n.v, mkt.risk_params.imr_bps)
                  fee == mul_bps_u64(n.v, mkt.fee_params.taker_fee_bps)
              IN Ok(imr + fee)

(* helpers/funding.rs *)

\* Faulty variant of update_funding_index: the delta is not clamped to the
\* velocity bound.
update_funding_index_unbounded(fs, now_, params, oi_cap) ==
    IF ~(params.interval_sec > 0) THEN Err("InvalidFundingParams")
    ELSE IF now_ <= fs.last_update_ts THEN Ok(fs)
    ELSE LET elapsed == now_ - fs.last_update_ts
             premium_bps == IF oi_cap = 0 THEN 0
                            ELSE TruncDiv(fs.skew * BPS_DENOM, oi_cap)
             clamped == Min(Max(premium_bps, -params.premium_clamp_bps),
                            params.premium_clamp_bps)
             delta == TruncDiv(clamped * FUNDING_SCALE * elapsed, params.interval_sec)
         IN Ok([fs EXCEPT !.funding_index = @ + delta,
                          !.last_update_ts = now_])

update_funding_index(fs, now_, params, oi_cap) ==
    IF ~(params.interval_sec > 0) THEN Err("InvalidFundingParams")
    ELSE IF now_ <= fs.last_update_ts THEN Ok(fs)
    ELSE LET elapsed == now_ - fs.last_update_ts
             premium_bps == IF oi_cap = 0 THEN 0
                            ELSE TruncDiv(fs.skew * BPS_DENOM, oi_cap)
             clamped == Min(Max(premium_bps, -params.premium_clamp_bps),
                            params.premium_clamp_bps)
             velocity_bound ==
                 TruncDiv(params.funding_velocity_cap_bps_per_day * elapsed,
                          SECONDS_PER_DAY)
             interval_scaled ==
                 TruncDiv(clamped * FUNDING_SCALE * elapsed, params.interval_sec)
             max_scaled == velocity_bound * FUNDING_SCALE
             delta == Min(Max(interval_scaled, -max_scaled), max_scaled)
         IN Ok([fs EXCEPT !.funding_index = @ + delta,
                          !.last_update_ts = now_])

\* Faulty variant of saturating_sub: a plain subtraction.
plain_sub(a, b) == a - b

saturating_sub(a, b) == IF a >= b THEN a - b ELSE 0

\* Faulty variant of settle_user_funding: longs receive and shorts pay.
settle_user_funding_reversed(position, fs, margin) ==
    LET delta_long == fs.funding_index - position.last_funding_index_long
        delta_short == fs.funding_index - position.last_funding_index_short
        long_payment == TruncDiv(position.long_qty * delta_long, FUNDING_SCALE)
        short_payment == TruncDiv(position.short_qty * delta_short, FUNDING_SCALE)
        net_delta == long_payment - short_payment
        balance == IF net_delta >= 0
                   THEN margin.collateral_balance + net_delta
                   ELSE saturating_sub(margin.collateral_balance, -net_delta)
    IN Ok([position |-> [position EXCEPT
                            !.last_funding_index_long = fs.funding_index,
                            !.last_funding_index_short = fs.funding_index],
           margin |-> [margin EXCEPT !.collateral_balance = balance]])

\* Returns the pair position, margin as settle_user_funding leaves them.
\* Faulty variant of settle_user_funding: the last-settled index of a leg
\* advances only while the leg has quantity.
settle_user_funding_active_legs(position, fs, margin) ==
    LET delta_long == fs.funding_index - position.last_funding_index_long
        delta_short == fs.funding_index - position.last_funding_index_short
        long_payment == TruncDiv(position.long_qty * delta_long, FUNDING_SCALE)
        short_payment == TruncDiv(position.short_qty * delta_short, FUNDING_SCALE)
        net_delta == short_payment - long_payment
        balance == IF net_delta >= 0
                   THEN margin.collateral_balance + net_delta
                   ELSE saturating_sub(margin.collateral_balance, -net_delta)
    IN Ok([position |-> [position EXCEPT
                            !.last_funding_index_long =
                                IF position.long_qty > 0 THEN fs.funding_index ELSE @,
                            !.last_funding_index_short =
                                IF position.short_qty > 0 THEN fs.funding_index ELSE @],
           margin |-> [margin EXCEPT !.collateral_balance = balance]])

settle_user_funding(position, fs, margin) ==
    LET delta_long == fs.funding_index - position.last_funding_index_long
        delta_short == fs.funding_index - position.last_funding_index_short
        long_payment == TruncDiv(position.long_qty * delta_long, FUNDING_SCALE)
        short_payment == TruncDiv(position.short_qty * delta_short, FUNDING_SCALE)
        net_delta == short_payment - long_payment
        balance == IF net_delta >= 0
                   THEN margin.collateral_balance + net_delta
                   ELSE saturating_sub(margin.collateral_balance, -net_delta)
    IN Ok([position |-> [position EXCEPT
                            !.last_funding_index_long = fs.funding_index,
                            !.last_funding_index_short = fs.funding_index],
           margin |-> [margin EXCEPT !.collateral_balance = balance]])

(* helpers/position.rs *)

\* Faulty variant of apply_fill_to_position: the fill goes to the other leg.
apply_fill_to_other_leg(position, side, qty, notional) ==
    IF side = "Buy"
    THEN Ok([position EXCEPT !.short_qty = @ + qty,
                             !.short_entry_notional = @ + notional])
    ELSE Ok([position EXCEPT !.long_qty = @ + qty,
                             !.long_entry_notional = @ + notional])

apply_fill_to_position(position, side, qty, notional) ==
    IF side = "Buy"
    THEN Ok([position EXCEPT !.long_qty = @ + qty,
                             !.long_entry_notional = @ + notional])
    ELSE Ok([position EXCEPT !.short_qty = @ + qty,
                             !.short_entry_notional = @ + notional])

\* Faulty variant of reduce_position: the closed quantity is not compared
\* with the leg's quantity.
reduce_position_unbounded(position, leg, close_qty) ==
    IF leg = "Long"
    THEN IF position.long_qty = 0 THEN Err("MathOverflow")
         ELSE LET reduced_notional ==
                      (position.long_entry_notional * close_qty) \div position.long_qty
              IN Ok([position |-> [position EXCEPT
                                      !.long_qty = @ - close_qty,
                                      !.long_entry_notional = @ - reduced_notional],
                     reduced_notional |-> reduced_notional])
    ELSE IF position.short_qty = 0 THEN Err("MathOverflow")
         ELSE LET reduced_notional ==
                      (position.short_entry_notional * close_qty) \div position.short_qty
              IN Ok([position |-> [position EXCEPT
                                      !.short_qty = @ - close_qty,
                                      !.short_entry_notional = @ - reduced_notional],
                     reduced_notional |-> reduced_notional])

\* Faulty variant of reduce_position: the removed notional is rounded up.
reduce_position_ceil(position, leg, close_qty) ==
    LET qty == IF leg = "Long" THEN position.long_qty ELSE position.short_qty
        entry == IF leg = "Long" THEN position.long_entry_notional
                 ELSE position.short_entry_notional
    IN IF ~(qty >= close_qty) THEN Err("InvalidCloseQty")
       ELSE IF qty = 0 THEN Err("MathOverflow")
       ELSE LET reduced_notional == (entry * close_qty + qty - 1) \div qty
            IN Ok([position |->
                       IF leg = "Long"
                       THEN [position EXCEPT !.long_qty = @ - close_qty,
                                             !.long_entry_notional = @ - reduced_notional]
                       ELSE [position EXCEPT !.short_qty = @ - close_qty,
                                             !.short_entry_notional = @ - reduced_notional],
                   reduced_notional |-> reduced_notional])

\* Returns the position after the reduction and the notional removed.
reduce_position(position, leg, close_qty) ==
    IF leg = "Long"
    THEN IF ~(position.long_qty >= close_qty) THEN Err("InvalidCloseQty")
         ELSE IF position.long_qty = 0 THEN Err("MathOverflow")
         ELSE LET reduced_notional ==
                      (position.long_entry_notional * close_qty) \div position.long_qty
              IN Ok([position |-> [position EXCEPT
                                      !.long_qty = @ - close_qty,
                                      !.long_entry_notional = @ - reduced_notional],
                     reduced_notional |-> reduced_notional])
    ELSE IF ~(position.short_qty >= close_qty) THEN Err("InvalidCloseQty")
         ELSE IF position.short_qty = 0 THEN Err("MathOverflow")
         ELSE LET reduced_notional ==
                      (position.short_entry_notional * close_qty) \div position.short_qty
              IN Ok([position |-> [position EXCEPT
                                      !.short_qty = @ - close_qty,
                                      !.short_entry_notional = @ - reduced_notional],
                     reduced_notional |-> reduced_notional])

-----------------------------------------------------------------------------
(* helpers/oracle.rs *)

\* The intermediate values are u128: wider than u64 by enough that
\* value * PRICE_SCALE always fits, and exceeded by the high powers of ten.
U128_MODULUS == 1073741824

\* u128::checked_mul
checked_mul_u128(a, b) ==
    IF b # 0 /\ a > (U128_MODULUS - 1) \div b THEN Err("MathOverflow") ELSE Ok(a * b)

RECURSIVE pow10_u128(_)
pow10_u128(power) ==
    IF power = 0 THEN Ok(1)
    ELSE LET lower == pow10_u128(power - 1) IN
         IF ~IsOk(lower) THEN lower ELSE checked_mul_u128(lower.v, 10)

scale_unsigned_value(value, exponent) ==
    IF exponent >= 0
    THEN LET power == pow10_u128(exponent) IN
         IF ~IsOk(power) THEN power
         ELSE LET x == checked_mul_u128(value, power.v) IN
              IF ~IsOk(x) THEN x ELSE checked_mul_u128(x.v, PRICE_SCALE)
    ELSE LET divisor == pow10_u128(-exponent) IN
         IF ~IsOk(divisor) THEN divisor
         ELSE LET x == checked_mul_u128(value, PRICE_SCALE) IN
              IF ~IsOk(x) THEN x ELSE Ok(x.v \div divisor.v)

ceil_div_u128(numerator, denominator) ==
    IF denominator = 0 THEN Err("MathOverflow")
    ELSE IF numerator > (U128_MODULUS - 1) - (denominator - 1) THEN Err("MathOverflow")
    ELSE Ok((numerator + (denominator - 1)) \div denominator)

scale_unsigned_value_ceil(value, exponent) ==
    IF exponent >= 0
    THEN scale_unsigned_value(value, exponent)
    ELSE LET divisor == pow10_u128(-exponent) IN
         IF ~IsOk(divisor) THEN divisor
         ELSE LET numerator == checked_mul_u128(value, PRICE_SCALE) IN
              IF ~IsOk(numerator) THEN numerator
              ELSE ceil_div_u128(numerator.v, divisor.v)

\* u64::try_from(scaled)
u64_try_from(scaled) ==
    IF scaled >= U64_MODULUS THEN Err("MathOverflow") ELSE Ok(scaled)

scale_signed_price_to_engine(price, exponent) ==
    IF ~(price > 0) THEN Err("InvalidPrice")
    ELSE LET scaled == scale_unsigned_value(price, exponent) IN
         IF ~IsOk(scaled) THEN scaled
         ELSE IF ~(scaled.v > 0) THEN Err("InvalidPrice")
         ELSE u64_try_from(scaled.v)

scale_confidence_to_engine(conf, exponent) ==
    LET scaled == scale_unsigned_value_ceil(conf, exponent) IN
    IF ~IsOk(scaled) THEN scaled ELSE u64_try_from(scaled.v)

\* price_update.key = "system" selects the caller-supplied fallback triple;
\* otherwise price_update.wire tells how far the account passes the owner,
\* discriminator, deserialisation, verification-level and feed-id checks.
read_oracle_price_update(mkt, price_update, clock_now, fallback_oracle_price, fallback_oracle_conf, fallback_oracle_publish_time) ==
    IF price_update.key = "system"
    THEN IF ~(fallback_oracle_price > 0) THEN Err("InvalidOracle")
         ELSE LET publish_time == IF fallback_oracle_publish_time <= 0
                                  THEN clock_now
                                  ELSE fallback_oracle_publish_time
                  age == clock_now - publish_time
              IN IF ~(age >= 0) THEN Err("InvalidOracle")
                 ELSE IF ~(age <= mkt.pricing_params.max_oracle_staleness_sec)
                 THEN Err("StaleOracle")
                 ELSE Ok([price |-> fallback_oracle_price,
                          conf |-> fallback_oracle_conf,
                          publish_time |-> publish_time])
    ELSE IF price_update.wire # "full" THEN Err("InvalidOracle")
    ELSE LET msg == price_update.price_message
             age == clock_now - msg.publish_time
         IN IF ~(age >= 0) THEN Err("InvalidOracle")
            ELSE IF ~(age <= mkt.pricing_params.max_oracle_staleness_sec)
            THEN Err("StaleOracle")
            ELSE LET oracle_price == scale_signed_price_to_engine(msg.price, msg.exponent)
                     oracle_conf == scale_confidence_to_engine(msg.conf, msg.exponent)
                 IN IF ~IsOk(oracle_price) THEN oracle_price
                    ELSE IF ~IsOk(oracle_conf) THEN oracle_conf
                    ELSE Ok([price |-> oracle_price.v,
                             conf |-> oracle_conf.v,
                             publish_time |-> msg.publish_time])

\* Faulty variant of validate_oracle: the deviation of the fill price is not
\* checked.
validate_oracle_any_fill(mkt, now_, fill_price, oracle_price, oracle_conf, oracle_publish_time) ==
    LET age == now_ - oracle_publish_time IN
    IF ~(age >= 0) THEN Err("InvalidOracle")
    ELSE IF ~(age <= mkt.pricing_params.max_oracle_staleness_sec) THEN Err("StaleOracle")
    ELSE IF oracle_price = 0 THEN Err("MathOverflow")
    ELSE LET conf_bps == (oracle_conf * BPS_DENOM) \div oracle_price IN
         IF ~(conf_bps <= mkt.pricing_params.max_conf_bps)
         THEN Err("OracleConfidenceTooWide")
         ELSE Ok(TRUE)

validate_oracle(mkt, now_, fill_price, oracle_price, oracle_conf, oracle_publish_time) ==
    LET age == now_ - oracle_publish_time IN
    IF ~(age >= 0) THEN Err("InvalidOracle")
    ELSE IF ~(age <= mkt.pricing_params.max_oracle_staleness_sec) THEN Err("StaleOracle")
    ELSE IF oracle_price = 0 THEN Err("MathOverflow")
    ELSE LET conf_bps == (oracle_conf * BPS_DENOM) \div oracle_price IN
         IF ~(conf_bps <= mkt.pricing_params.max_conf_bps)
         THEN Err("OracleConfidenceTooWide")
         ELSE LET deviation == abs_diff(fill_price, oracle_price)
                  deviation_bps == (deviation * BPS_DENOM) \div oracle_price
              IN IF ~(deviation_bps <= mkt.pricing_params.max_fill_deviation_bps)
                 THEN Err("FillPriceDeviationTooLarge")
                 ELSE Ok(TRUE)

\* Faulty variant of validate_impact_price: the fill is compared with the
\* oracle price itself, without spread or skew impact.
validate_impact_price_at_oracle(side, fill_price, oracle_price, projected_skew, projected_oi, pricing) ==
    IF side = "Buy"
    THEN IF ~(fill_price >= oracle_price) THEN Err("ImpactPriceViolation") ELSE Ok(TRUE)
    ELSE IF ~(fill_price <= oracle_price) THEN Err("ImpactPriceViolation") ELSE Ok(TRUE)

validate_impact_price(side, fill_price, oracle_price, projected_skew, projected_oi, pricing) ==
    LET skew_ratio_bps == IF projected_oi = 0 THEN 0
                          ELSE (abs_diff(projected_skew, 0) * BPS_DENOM) \div projected_oi
        skew_impact == (pricing.skew_coeff_bps * skew_ratio_bps) \div BPS_DENOM
        impact_bps == pricing.base_spread_bps + skew_impact
    IN IF ~(impact_bps < BPS_DENOM) THEN Err("ImpactPriceViolation")
       ELSE LET upper == (oracle_price * (BPS_DENOM + impact_bps)) \div BPS_DENOM
                lower == (oracle_price * (BPS_DENOM - impact_bps)) \div BPS_DENOM
            IN IF side = "Buy"
               THEN IF ~(fill_price >= upper) THEN Err("ImpactPriceViolation")
                    ELSE Ok(TRUE)
               ELSE IF ~(fill_price <= lower) THEN Err("ImpactPriceViolation")
                    ELSE Ok(TRUE)

\* Faulty variant of validate_order_price: a Market order fills at any price.
validate_order_price_limit_only(side, order_type, price, fill_price) ==
    IF ~(price > 0) THEN Err("InvalidLimitPrice")
    ELSE IF order_type = "Market" THEN Ok(TRUE)
    ELSE IF side = "Buy"
         THEN IF ~(fill_price <= price) THEN Err("LimitPriceViolation") ELSE Ok(TRUE)
         ELSE IF ~(fill_price >= price) THEN Err("LimitPriceViolation") ELSE Ok(TRUE)

validate_order_price(side, order_type, price, fill_price) ==
    IF ~(price > 0) THEN Err("InvalidLimitPrice")
    ELSE IF side = "Buy"
         THEN IF ~(fill_price <= price) THEN Err("LimitPriceViolation") ELSE Ok(TRUE)
         ELSE IF ~(fill_price >= price) THEN Err("LimitPriceViolation") ELSE Ok(TRUE)

(* helpers/execution.rs and the token program's transfer *)

\* token::transfer fails when the source holds less than the amount.
token_transfer(v, from, to, amount) ==
    IF v[from] < amount THEN Err("TokenInsufficientFunds")
    ELSE Ok([v EXCEPT ![from] = @ - amount, ![to] = @ + amount])

transfer_from_collateral(v, to, amount) ==
    IF amount = 0 THEN Ok(v)
    ELSE token_transfer(v, "collateral_vault", to, amount)

-----------------------------------------------------------------------------
(* lp_vault: the two notifications the engine issues by CPI.  acc holds   *)
(* pool, keeper_rebate (the record of the rebate account passed) and      *)
(* vaults; the result is acc as the pool program commits it.              *)

mul_bps(value, bps) == (value * bps) \div BPS_DENOM

apply_trade_fill(acc, keeper, notional, fee, pnl_delta) ==
    LET p == acc.pool
        lp_fee == mul_bps(fee, p.lp_fee_bps)
        insurance_fee == mul_bps(fee, p.insurance_fee_bps)
    IN IF fee - lp_fee - insurance_fee < 0 THEN Err("MathOverflow")
       ELSE LET protocol_fee == fee - lp_fee - insurance_fee
                p1 == [p EXCEPT !.total_trading_fees = @ + fee,
                                !.cumulative_trader_pnl = @ + pnl_delta]
            IN IF ~(protocol_fee <= acc.vaults["lp_protocol_fee_vault"])
               THEN Err("InsufficientProtocolFeeVault")
               ELSE IF ~(insurance_fee <= acc.vaults["lp_insurance_vault"])
               THEN Err("InsufficientInsuranceVault")
               ELSE IF p1.execution_rebate_usdc > 0
               THEN IF acc.keeper_rebate.keeper # keeper
                    THEN Err("InvalidKeeperRebate")
                    ELSE Ok([acc EXCEPT
                               !.keeper_rebate.amount = @ + p1.execution_rebate_usdc,
                               !.pool = [p1 EXCEPT !.pending_keeper_rebates =
                                                      @ + p1.execution_rebate_usdc]])
               ELSE Ok([acc EXCEPT !.pool = p1])

\* Faulty variant of apply_liquidation: the rebate ledger is credited the
\* insurance part of the penalty.
apply_liquidation_insurance_part(acc, keeper, penalty, bad_debt) ==
    LET keeper_portion == mul_bps(penalty, KEEPER_PENALTY_BPS)
        insurance_portion == penalty - keeper_portion
    IN IF acc.keeper_rebate.keeper # keeper THEN Err("InvalidKeeperRebate")
       ELSE IF ~(insurance_portion <= acc.vaults["lp_insurance_vault"])
       THEN Err("InsufficientInsuranceVault")
       ELSE IF bad_debt > 0 /\ ~(bad_debt <= acc.vaults["lp_insurance_vault"])
       THEN Err("InsuranceShortfall")
       ELSE Ok([acc EXCEPT !.keeper_rebate.amount = @ + insurance_portion,
                           !.pool.pending_keeper_rebates = @ + insurance_portion])

apply_liquidation(acc, keeper, penalty, bad_debt) ==
    LET keeper_portion == mul_bps(penalty, KEEPER_PENALTY_BPS)
        insurance_portion == penalty - keeper_portion
    IN IF acc.keeper_rebate.keeper # keeper THEN Err("InvalidKeeperRebate")
       ELSE IF ~(insurance_portion <= acc.vaults["lp_insurance_vault"])
       THEN Err("InsufficientInsuranceVault")
       ELSE IF bad_debt > 0 /\ ~(bad_debt <= acc.vaults["lp_insurance_vault"])
       THEN Err("InsuranceShortfall")
       ELSE Ok([acc EXCEPT !.keeper_rebate.amount = @ + keeper_portion,
                           !.pool.pending_keeper_rebates = @ + keeper_portion])

-----------------------------------------------------------------------------
(* order_engine instruction handlers.  acc is the set of accounts of the   *)
(* instruction: global_config, keeper_set, market, engine_config (read),   *)
(* market_funding_state, user_margin, user_market_position, order, vaults, *)
(* pool, keeper_rebate.  A handler returns [err, acc].                     *)

Fail(e, acc) == [err |-> e, acc |-> acc]
Done(acc) == [err |-> "Ok", acc |-> acc]

unsigned_abs(x) == IF x >= 0 THEN x ELSE -x

(* instructions/execute_order.rs: transfer_fee_split *)
transfer_fee_split(acc, fee) ==
    IF fee = 0 THEN Ok(acc.vaults)
    ELSE LET lp_fee == mul_bps_u64(fee, acc.pool.lp_fee_bps)
             insurance_fee == mul_bps_u64(fee, acc.pool.insurance_fee_bps)
         IN IF fee - lp_fee - insurance_fee < 0 THEN Err("MathOverflow")
            ELSE LET protocol_fee == fee - lp_fee - insurance_fee
                     t1 == transfer_from_collateral(acc.vaults, "lp_liquidity_vault", lp_fee)
                 IN IF ~IsOk(t1) THEN t1
                    ELSE LET t2 == transfer_from_collateral(
                                       t1.v, "lp_insurance_vault", insurance_fee)
                         IN IF ~IsOk(t2) THEN t2
                            ELSE transfer_from_collateral(
                                     t2.v, "lp_protocol_fee_vault", protocol_fee)

(* instructions/execute_order.rs: cpi_apply_trade_fill *)
cpi_apply_trade_fill(acc, executor, notional, fee) ==
    apply_trade_fill(acc, executor, notional, fee, 0)

\* Faulty variant of settle_fee_and_notify: the trade-fill notification is
\* issued first, the fee transfers follow.
notify_and_settle_fee(acc, executor, notional, fee) ==
    LET n == cpi_apply_trade_fill(acc, executor, notional, fee) IN
    IF ~IsOk(n) THEN Fail(n.err, acc)
    ELSE LET acc1 == [acc EXCEPT !.pool = n.v.pool,
                                 !.keeper_rebate = n.v.keeper_rebate]
             t == transfer_fee_split(acc1, fee)
         IN IF ~IsOk(t) THEN Fail(t.err, acc1)
            ELSE Done([acc1 EXCEPT !.vaults = t.v])

\* The tail both branches share: mark the order Executed is done by the
\* caller; here the fee transfers, then the trade-fill notification.
settle_fee_and_notify(acc, executor, notional, fee) ==
    LET t == transfer_fee_split(acc, fee) IN
    IF ~IsOk(t) THEN Fail(t.err, acc)
    ELSE LET acc1 == [acc EXCEPT !.vaults = t.v]
             n == cpi_apply_trade_fill(acc1, executor, notional, fee)
         IN IF ~IsOk(n) THEN Fail(n.err, acc1)
            ELSE Done([acc1 EXCEPT !.pool = n.v.pool,
                                   !.keeper_rebate = n.v.keeper_rebate])

(* instructions/execute_order.rs lines 147-190: the reduce-only branch *)
\* Faulty variant of execute_reduce_only: the skew is left as it was.
execute_reduce_only_skew_kept(acc, executor, notional, order_qty) ==
    LET close_leg == IF acc.order.side = "Buy" THEN "Short" ELSE "Long"
        r == reduce_position(acc.user_market_position, close_leg, order_qty)
    IN IF ~IsOk(r) THEN Fail(r.err, acc)
       ELSE LET reduced_notional == r.v.reduced_notional
                acc1 == [acc EXCEPT !.user_market_position = r.v.position]
            IN IF acc1.user_margin.total_notional < reduced_notional
               THEN Fail("MathOverflow", acc1)
               ELSE IF acc1.market_funding_state.open_interest < reduced_notional
               THEN Fail("MathOverflow",
                         [acc1 EXCEPT !.user_margin.total_notional = @ - reduced_notional])
               ELSE LET acc2 == [acc1 EXCEPT
                                   !.user_margin.total_notional = @ - reduced_notional,
                                   !.market_funding_state.open_interest =
                                       @ - reduced_notional]
                        fee == mul_bps_u64(notional, acc.market.fee_params.taker_fee_bps)
                    IN IF ~(acc2.user_margin.collateral_balance >= fee)
                       THEN Fail("InsufficientCollateral", acc2)
                       ELSE settle_fee_and_notify(
                                [acc2 EXCEPT !.user_margin.collateral_balance = @ - fee,
                                             !.order.status = "Executed"],
                                executor, notional, fee)

\* Faulty variant of execute_reduce_only: the order closes the leg on its
\* own side.
execute_reduce_only_same_leg(acc, executor, notional, order_qty) ==
    LET close_leg == IF acc.order.side = "Buy" THEN "Long" ELSE "Short"
        r == reduce_position(acc.user_market_position, close_leg, order_qty)
    IN IF ~IsOk(r) THEN Fail(r.err, acc)
       ELSE LET reduced_notional == r.v.reduced_notional
                acc1 == [acc EXCEPT !.user_market_position = r.v.position]
            IN IF acc1.user_margin.total_notional < reduced_notional
               THEN Fail("MathOverflow", acc1)
               ELSE IF acc1.market_funding_state.open_interest < reduced_notional
               THEN Fail("MathOverflow",
                         [acc1 EXCEPT !.user_margin.total_notional = @ - reduced_notional])
               ELSE LET acc2 == [acc1 EXCEPT
                                   !.user_margin.total_notional = @ - reduced_notional,
                                   !.market_funding_state.open_interest =
                                       @ - reduced_notional,
                                   !.market_funding_state.skew =
                                       IF close_leg = "Long" THEN @ - reduced_notional
                                       ELSE @ + reduced_notional]
                        fee == mul_bps_u64(notional, acc.market.fee_params.taker_fee_bps)
                    IN IF ~(acc2.user_margin.collateral_balance >= fee)
                       THEN Fail("InsufficientCollateral", acc2)
                       ELSE settle_fee_and_notify(
                                [acc2 EXCEPT !.user_margin.collateral_balance = @ - fee,
                                             !.order.status = "Executed"],
                                executor, notional, fee)

execute_reduce_only(acc, executor, notional, order_qty) ==
    LET close_leg == IF acc.order.side = "Buy" THEN "Short" ELSE "Long"
        r == reduce_position(acc.user_market_position, close_leg, order_qty)
    IN IF ~IsOk(r) THEN Fail(r.err, acc)
       ELSE LET reduced_notional == r.v.reduced_notional
                acc1 == [acc EXCEPT !.user_market_position = r.v.position]
            IN IF acc1.user_margin.total_notional < reduced_notional
               THEN Fail("MathOverflow", acc1)
               ELSE IF acc1.market_funding_state.open_interest < reduced_notional
               THEN Fail("MathOverflow",
                         [acc1 EXCEPT !.user_margin.total_notional = @ - reduced_notional])
               ELSE LET acc2 == [acc1 EXCEPT
                                   !.user_margin.total_notional = @ - reduced_notional,
                                   !.market_funding_state.open_interest =
                                       @ - reduced_notional,
                                   !.market_funding_state.skew =
                                       IF close_leg = "Long" THEN @ - reduced_notional
                                       ELSE @ + reduced_notional]
                        fee == mul_bps_u64(notional, acc.market.fee_params.taker_fee_bps)
                    IN IF ~(acc2.user_margin.collateral_balance >= fee)
                       THEN Fail("InsufficientCollateral", acc2)
                       ELSE settle_fee_and_notify(
                                [acc2 EXCEPT !.user_margin.collateral_balance = @ - fee,
                                             !.order.status = "Executed"],
                                executor, notional, fee)

\* Faulty variant of execute_open: open interest and skew are not checked
\* against their caps.
execute_open_uncapped(acc, executor, fill_price, oracle_price, notional, order_qty) ==
    LET fs == acc.market_funding_state
        mkt == acc.market
        projected_oi == fs.open_interest + notional
        projected_skew == IF acc.order.side = "Buy" THEN fs.skew + notional
                          ELSE fs.skew - notional
        fee == mul_bps_u64(notional, mkt.fee_params.taker_fee_bps)
    IN IF ~(acc.user_margin.collateral_balance >= fee)
       THEN Fail("InsufficientCollateral", acc)
       ELSE LET acc1 == [acc EXCEPT !.user_margin.collateral_balance = @ - fee]
                new_total_notional == acc1.user_margin.total_notional + notional
            IN IF ~(acc1.user_margin.collateral_balance >=
                      mul_bps_u64(new_total_notional, mkt.risk_params.imr_bps))
               THEN Fail("MarginRequirementViolation", acc1)
               ELSE LET f == apply_fill_to_position(acc1.user_market_position,
                                                    acc.order.side, order_qty, notional)
                    IN settle_fee_and_notify(
                           [acc1 EXCEPT
                              !.user_market_position = f.v,
                              !.market_funding_state.open_interest = projected_oi,
                              !.market_funding_state.skew = projected_skew,
                              !.user_margin.total_notional = new_total_notional,
                              !.order.status = "Executed"],
                           executor, notional, fee)

\* Faulty variant of execute_open: the initial margin and the leverage of
\* the account after the fill are not checked.
execute_open_unmargined(acc, executor, fill_price, oracle_price, notional, order_qty) ==
    LET fs == acc.market_funding_state
        mkt == acc.market
        projected_oi == fs.open_interest + notional
        projected_skew == IF acc.order.side = "Buy" THEN fs.skew + notional
                          ELSE fs.skew - notional
    IN IF ~(projected_oi <= mkt.risk_params.oi_cap) THEN Fail("OiCapExceeded", acc)
       ELSE IF ~(unsigned_abs(projected_skew) <= mkt.risk_params.skew_cap)
       THEN Fail("SkewCapExceeded", acc)
       ELSE LET imp == validate_impact_price(acc.order.side, fill_price, oracle_price,
                                             projected_skew, projected_oi,
                                             mkt.pricing_params)
            IN IF ~IsOk(imp) THEN Fail(imp.err, acc)
               ELSE LET fee == mul_bps_u64(notional, mkt.fee_params.taker_fee_bps) IN
                    IF ~(acc.user_margin.collateral_balance >= fee)
                    THEN Fail("InsufficientCollateral", acc)
                    ELSE LET acc1 == [acc EXCEPT !.user_margin.collateral_balance = @ - fee]
                             new_total_notional == acc1.user_margin.total_notional + notional
                             imr_required ==
                                 mul_bps_u64(new_total_notional, mkt.risk_params.imr_bps)
                         IN LET f == apply_fill_to_position(
                                                      acc1.user_market_position,
                                                      acc.order.side, order_qty, notional)
                                         IN settle_fee_and_notify(
                                                [acc1 EXCEPT
                                                   !.user_market_position = f.v,
                                                   !.market_funding_state.open_interest =
                                                       projected_oi,
                                                   !.market_funding_state.skew =
                                                       projected_skew,
                                                   !.user_margin.total_notional =
                                                       new_total_notional,
                                                   !.order.status = "Executed"],
                                                executor, notional, fee)

(* instructions/execute_order.rs lines 192-267: the opening branch *)
execute_open(acc, executor, fill_price, oracle_price, notional, order_qty) ==
    LET fs == acc.market_funding_state
        mkt == acc.market
        projected_oi == fs.open_interest + notional
        projected_skew == IF acc.order.side = "Buy" THEN fs.skew + notional
                          ELSE fs.skew - notional
    IN IF ~(projected_oi <= mkt.risk_params.oi_cap) THEN Fail("OiCapExceeded", acc)
       ELSE IF ~(unsigned_abs(projected_skew) <= mkt.risk_params.skew_cap)
       THEN Fail("SkewCapExceeded", acc)
       ELSE LET imp == validate_impact_price(acc.order.side, fill_price, oracle_price,
                                             projected_skew, projected_oi,
                                             mkt.pricing_params)
            IN IF ~IsOk(imp) THEN Fail(imp.err, acc)
               ELSE LET fee == mul_bps_u64(notional, mkt.fee_params.taker_fee_bps) IN
                    IF ~(acc.user_margin.collateral_balance >= fee)
                    THEN Fail("InsufficientCollateral", acc)
                    ELSE LET acc1 == [acc EXCEPT !.user_margin.collateral_balance = @ - fee]
                             new_total_notional == acc1.user_margin.total_notional + notional
                             imr_required ==
                                 mul_bps_u64(new_total_notional, mkt.risk_params.imr_bps)
                         IN IF ~(acc1.user_margin.collateral_balance >= imr_required)
                            THEN Fail("MarginRequirementViolation", acc1)
                            ELSE LET leverage_num == new_total_notional
                                     leverage_den ==
                                         Max(acc1.user_margin.collateral_balance, 1)
                                 IN IF ~(leverage_num <=
                                           leverage_den * mkt.risk_params.max_leverage)
                                    THEN Fail("LeverageExceeded", acc1)
                                    ELSE LET f == apply_fill_to_position(
                                                      acc1.user_market_position,
                                                      acc.order.side, order_qty, notional)
                                         IN settle_fee_and_notify(
                                                [acc1 EXCEPT
                                                   !.user_market_position = f.v,
                                                   !.market_funding_state.open_interest =
                                                       projected_oi,
                                                   !.market_funding_state.skew =
                                                       projected_skew,
                                                   !.user_margin.total_notional =
                                                       new_total_notional,
                                                   !.order.status = "Executed"],
                                                executor, notional, fee)

\* Faulty variant of execute_fill: the trader's funding is settled against
\* the funding state as it was before the index update.
execute_fill_settle_first(acc, executor, now_, reserved_collateral, fill_price, price_update, oracle_price, oracle_conf, oracle_publish_time) ==
    LET mkt == acc.market
        acc1 == [acc EXCEPT !.user_margin.collateral_balance = @ + reserved_collateral]
        o == read_oracle_price_update(mkt, price_update, now_, oracle_price, oracle_conf,
                                      oracle_publish_time)
    IN IF ~IsOk(o) THEN Fail(o.err, acc1)
       ELSE LET vo == validate_oracle(mkt, now_, fill_price, o.v.price, o.v.conf,
                                      o.v.publish_time)
                notional == acc.order.margin
            IN IF ~IsOk(vo) THEN Fail(vo.err, acc1)
               ELSE IF ~(notional > 0) THEN Fail("InvalidAmount", acc1)
               ELSE IF ~(notional <= mkt.risk_params.max_trade_notional)
               THEN Fail("MaxTradeNotionalExceeded", acc1)
               ELSE LET order_qty == (notional * PRICE_SCALE) \div fill_price IN
                    IF ~(order_qty > 0) THEN Fail("InvalidAmount", acc1)
                    ELSE LET vp == validate_order_price(acc.order.side, acc.order.order_type,
                                                        acc.order.price, fill_price)
                         IN IF ~IsOk(vp) THEN Fail(vp.err, acc1)
                            ELSE LET uf == update_funding_index(
                                               acc1.market_funding_state, now_,
                                               mkt.funding_params, mkt.risk_params.oi_cap)
                                 IN IF ~IsOk(uf) THEN Fail(uf.err, acc1)
                                    ELSE LET st == settle_user_funding(
                                                       acc1.user_market_position,
                                                       acc1.market_funding_state,
                                                       acc1.user_margin)
                                             acc2 == [acc1 EXCEPT
                                                        !.market_funding_state = uf.v,
                                                        !.user_market_position =
                                                            st.v.position,
                                                        !.user_margin = st.v.margin]
                                         IN IF acc.order.reduce_only
                                            THEN execute_reduce_only(acc2, executor,
                                                                     notional, order_qty)
                                            ELSE execute_open(acc2, executor, fill_price,
                                                              o.v.price, notional,
                                                              order_qty)

(* instructions/execute_order.rs lines 97-145: after the TTL branch *)
execute_fill(acc, executor, now_, reserved_collateral, fill_price, price_update, oracle_price, oracle_conf, oracle_publish_time) ==
    LET mkt == acc.market
        acc1 == [acc EXCEPT !.user_margin.collateral_balance = @ + reserved_collateral]
        o == read_oracle_price_update(mkt, price_update, now_, oracle_price, oracle_conf,
                                      oracle_publish_time)
    IN IF ~IsOk(o) THEN Fail(o.err, acc1)
       ELSE LET vo == validate_oracle(mkt, now_, fill_price, o.v.price, o.v.conf,
                                      o.v.publish_time)
                notional == acc.order.margin
            IN IF ~IsOk(vo) THEN Fail(vo.err, acc1)
               ELSE IF ~(notional > 0) THEN Fail("InvalidAmount", acc1)
               ELSE IF ~(notional <= mkt.risk_params.max_trade_notional)
               THEN Fail("MaxTradeNotionalExceeded", acc1)
               ELSE LET order_qty == (notional * PRICE_SCALE) \div fill_price IN
                    IF ~(order_qty > 0) THEN Fail("InvalidAmount", acc1)
                    ELSE LET vp == validate_order_price(acc.order.side, acc.order.order_type,
                                                        acc.order.price, fill_price)
                         IN IF ~IsOk(vp) THEN Fail(vp.err, acc1)
                            ELSE LET uf == update_funding_index(
                                               acc1.market_funding_state, now_,
                                               mkt.funding_params, mkt.risk_params.oi_cap)
                                 IN IF ~IsOk(uf) THEN Fail(uf.err, acc1)
                                    ELSE LET st == settle_user_funding(
                                                       acc1.user_market_position, uf.v,
                                                       acc1.user_margin)
                                             acc2 == [acc1 EXCEPT
                                                        !.market_funding_state = uf.v,
                                                        !.user_market_position =
                                                            st.v.position,
                                                        !.user_margin = st.v.margin]
                                         IN IF acc.order.reduce_only
                                            THEN execute_reduce_only(acc2, executor,
                                                                     notional, order_qty)
                                            ELSE execute_open(acc2, executor, fill_price,
                                                              o.v.price, notional,
                                                              order_qty)

\* Faulty variant of execute_order: the market's status is not checked.
execute_order_unguarded(acc, executor, now_, fill_price, price_update, oracle_price, oracle_conf, oracle_publish_time) ==
    IF ~(fill_price > 0) THEN Fail("InvalidPrice", acc)
    ELSE LET auth == assert_executor_authorized(executor, acc.global_config, acc.keeper_set)
         IN IF ~IsOk(auth) THEN Fail(auth.err, acc)
            ELSE IF acc.global_config.global_pause THEN Fail("GlobalPaused", acc)
            ELSE IF acc.market_funding_state.halted THEN Fail("MarketHaltedLocal", acc)
            ELSE IF ~(acc.order.status = "Open") THEN Fail("OrderNotOpen", acc)
            ELSE IF ~(acc.order.market_id = acc.market.market_id)
            THEN Fail("MarketMismatch", acc)
            ELSE LET rc == estimate_order_reservation(acc.order.reduce_only,
                                                      acc.order.margin, acc.market)
                 IN IF ~IsOk(rc) THEN Fail(rc.err, acc)
                    ELSE IF now_ > acc.order.expires_at
                    THEN Done([acc EXCEPT !.user_margin.collateral_balance = @ + rc.v,
                                          !.order.status = "Expired"])
                    ELSE IF ~(acc.keeper_rebate.keeper = executor)
                    THEN Fail("InvalidKeeperRebateAccount", acc)
                    ELSE execute_fill(acc, executor, now_, rc.v, fill_price, price_update,
                                      oracle_price, oracle_conf, oracle_publish_time)

(* instructions/execute_order.rs: handler *)
execute_order(acc, executor, now_, fill_price, price_update, oracle_price, oracle_conf, oracle_publish_time) ==
    IF ~(fill_price > 0) THEN Fail("InvalidPrice", acc)
    ELSE LET auth == assert_executor_authorized(executor, acc.global_config, acc.keeper_set)
         IN IF ~IsOk(auth) THEN Fail(auth.err, acc)
            ELSE IF acc.global_config.global_pause THEN Fail("GlobalPaused", acc)
            ELSE IF ~(acc.market.status = "Active") THEN Fail("MarketNotActive", acc)
            ELSE IF acc.market_funding_state.halted THEN Fail("MarketHaltedLocal", acc)
            ELSE IF ~(acc.order.status = "Open") THEN Fail("OrderNotOpen", acc)
            ELSE IF ~(acc.order.market_id = acc.market.market_id)
            THEN Fail("MarketMismatch", acc)
            ELSE LET rc == estimate_order_reservation(acc.order.reduce_only,
                                                      acc.order.margin, acc.market)
                 IN IF ~IsOk(rc) THEN Fail(rc.err, acc)
                    ELSE IF now_ > acc.order.expires_at
                    THEN Done([acc EXCEPT !.user_margin.collateral_balance = @ + rc.v,
                                          !.order.status = "Expired"])
                    ELSE IF ~(acc.keeper_rebate.keeper = executor)
                    THEN Fail("InvalidKeeperRebateAccount", acc)
                    ELSE execute_fill(acc, executor, now_, rc.v, fill_price, price_update,
                                      oracle_price, oracle_conf, oracle_publish_time)

(* instructions/liquidate.rs: cpi_apply_liquidation *)
cpi_apply_liquidation(acc, executor, market_id, penalty, bad_debt) ==
    apply_liquidation(acc, executor, penalty, bad_debt)

\* Faulty variant of liquidate_reduce: the account's total_notional is left
\* as it was.
liquidate_reduce_notional_kept(acc, executor, market_id, leg, close_qty) ==
    LET r == reduce_position(acc.user_market_position, leg, close_qty) IN
    IF ~IsOk(r) THEN Fail(r.err, acc)
    ELSE LET reduced_notional == r.v.reduced_notional
             acc1 == [acc EXCEPT !.user_market_position = r.v.position]
         IN IF ~(reduced_notional > 0) THEN Fail("InvalidAmount", acc1)
            ELSE IF acc1.user_margin.total_notional < reduced_notional
                    \/ acc1.market_funding_state.open_interest < reduced_notional
            THEN Fail("MathOverflow", acc1)
            ELSE LET acc2 == [acc1 EXCEPT
                                !.market_funding_state.open_interest = @ - reduced_notional,
                                !.market_funding_state.skew =
                                    IF leg = "Long" THEN @ - reduced_notional
                                    ELSE @ + reduced_notional]
                     penalty == mul_bps_u64(reduced_notional,
                                            acc.engine_config.liquidation_penalty_bps)
                     keeper_portion == mul_bps_u64(penalty, KEEPER_PENALTY_BPS)
                     insurance_portion == penalty - keeper_portion
                     covered == acc2.user_margin.collateral_balance >= penalty
                     bad_debt == IF covered THEN 0
                                 ELSE penalty - acc2.user_margin.collateral_balance
                     acc3 == [acc2 EXCEPT !.user_margin.collateral_balance =
                                              IF covered THEN @ - penalty ELSE 0]
                     t1 == transfer_from_collateral(acc3.vaults, "lp_insurance_vault",
                                                    insurance_portion)
                 IN IF ~IsOk(t1) THEN Fail(t1.err, acc3)
                    ELSE LET t2 == transfer_from_collateral(t1.v, "lp_protocol_fee_vault",
                                                            keeper_portion)
                         IN IF ~IsOk(t2) THEN Fail(t2.err, [acc3 EXCEPT !.vaults = t1.v])
                            ELSE LET acc4 == [acc3 EXCEPT !.vaults = t2.v]
                                     \* the amount read is the one loaded before the transfers
                                     insurance_after_credit ==
                                         acc.vaults["lp_insurance_vault"] + insurance_portion
                                 IN IF bad_debt > insurance_after_credit
                                    THEN Fail("InsuranceShortfallMarketHalted",
                                              [acc4 EXCEPT
                                                 !.market_funding_state.halted = TRUE])
                                    ELSE LET n == cpi_apply_liquidation(
                                                      acc4, executor, market_id, penalty,
                                                      bad_debt)
                                         IN IF ~IsOk(n) THEN Fail(n.err, acc4)
                                            ELSE Done([acc4 EXCEPT
                                                         !.pool = n.v.pool,
                                                         !.keeper_rebate = n.v.keeper_rebate])

(* instructions/liquidate.rs lines 69-147: from the position reduction on *)
liquidate_reduce(acc, executor, market_id, leg, close_qty) ==
    LET r == reduce_position(acc.user_market_position, leg, close_qty) IN
    IF ~IsOk(r) THEN Fail(r.err, acc)
    ELSE LET reduced_notional == r.v.reduced_notional
             acc1 == [acc EXCEPT !.user_market_position = r.v.position]
         IN IF ~(reduced_notional > 0) THEN Fail("InvalidAmount", acc1)
            ELSE IF acc1.user_margin.total_notional < reduced_notional
                    \/ acc1.market_funding_state.open_interest < reduced_notional
            THEN Fail("MathOverflow", acc1)
            ELSE LET acc2 == [acc1 EXCEPT
                                !.user_margin.total_notional = @ - reduced_notional,
                                !.market_funding_state.open_interest = @ - reduced_notional,
                                !.market_funding_state.skew =
                                    IF leg = "Long" THEN @ - reduced_notional
                                    ELSE @ + reduced_notional]
                     penalty == mul_bps_u64(reduced_notional,
                                            acc.engine_config.liquidation_penalty_bps)
                     keeper_portion == mul_bps_u64(penalty, KEEPER_PENALTY_BPS)
                     insurance_portion == penalty - keeper_portion
                     covered == acc2.user_margin.collateral_balance >= penalty
                     bad_debt == IF covered THEN 0
                                 ELSE penalty - acc2.user_margin.collateral_balance
                     acc3 == [acc2 EXCEPT !.user_margin.collateral_balance =
                                              IF covered THEN @ - penalty ELSE 0]
                     t1 == transfer_from_collateral(acc3.vaults, "lp_insurance_vault",
                                                    insurance_portion)
                 IN IF ~IsOk(t1) THEN Fail(t1.err, acc3)
                    ELSE LET t2 == transfer_from_collateral(t1.v, "lp_protocol_fee_vault",
                                                            keeper_portion)
                         IN IF ~IsOk(t2) THEN Fail(t2.err, [acc3 EXCEPT !.vaults = t1.v])
                            ELSE LET acc4 == [acc3 EXCEPT !.vaults = t2.v]
                                     \* the amount read is the one loaded before the transfers
                                     insurance_after_credit ==
                                         acc.vaults["lp_insurance_vault"] + insurance_portion
                                 IN IF bad_debt > insurance_after_credit
                                    THEN Fail("InsuranceShortfallMarketHalted",
                                              [acc4 EXCEPT
                                                 !.market_funding_state.halted = TRUE])
                                    ELSE LET n == cpi_apply_liquidation(
                                                      acc4, executor, market_id, penalty,
                                                      bad_debt)
                                         IN IF ~IsOk(n) THEN Fail(n.err, acc4)
                                            ELSE Done([acc4 EXCEPT
                                                         !.pool = n.v.pool,
                                                         !.keeper_rebate = n.v.keeper_rebate])

\* Faulty variant of liquidate: the eligibility check is missing.
liquidate_unchecked(acc, executor, now_, market_id, leg, close_qty) ==
    IF ~(close_qty > 0) THEN Fail("InvalidAmount", acc)
    ELSE IF ~(acc.market.market_id = market_id) THEN Fail("MarketMismatch", acc)
    ELSE IF ~(acc.market.status = "Active") THEN Fail("MarketNotActive", acc)
    ELSE IF acc.market_funding_state.halted THEN Fail("MarketHaltedLocal", acc)
    ELSE IF ~(acc.keeper_rebate.keeper = executor)
    THEN Fail("InvalidKeeperRebateAccount", acc)
    ELSE LET auth == assert_keeper_only(executor, acc.keeper_set) IN
         IF ~IsOk(auth) THEN Fail(auth.err, acc)
         ELSE LET uf == update_funding_index(acc.market_funding_state, now_,
                                             acc.market.funding_params,
                                             acc.market.risk_params.oi_cap)
              IN IF ~IsOk(uf) THEN Fail(uf.err, acc)
                 ELSE LET st == settle_user_funding(acc.user_market_position, uf.v,
                                                    acc.user_margin)
                          acc1 == [acc EXCEPT !.market_funding_state = uf.v,
                                              !.user_market_position = st.v.position,
                                              !.user_margin = st.v.margin]
                      IN liquidate_reduce(acc1, executor, market_id, leg, close_qty)

(* instructions/liquidate.rs: handler *)
liquidate(acc, executor, now_, market_id, leg, close_qty) ==
    IF ~(close_qty > 0) THEN Fail("InvalidAmount", acc)
    ELSE IF ~(acc.market.market_id = market_id) THEN Fail("MarketMismatch", acc)
    ELSE IF ~(acc.market.status = "Active") THEN Fail("MarketNotActive", acc)
    ELSE IF acc.market_funding_state.halted THEN Fail("MarketHaltedLocal", acc)
    ELSE IF ~(acc.keeper_rebate.keeper = executor)
    THEN Fail("InvalidKeeperRebateAccount", acc)
    ELSE LET auth == assert_keeper_only(executor, acc.keeper_set) IN
         IF ~IsOk(auth) THEN Fail(auth.err, acc)
         ELSE LET uf == update_funding_index(acc.market_funding_state, now_,
                                             acc.market.funding_params,
                                             acc.market.risk_params.oi_cap)
              IN IF ~IsOk(uf) THEN Fail(uf.err, acc)
                 ELSE LET st == settle_user_funding(acc.user_market_position, uf.v,
                                                    acc.user_margin)
                          acc1 == [acc EXCEPT !.market_funding_state = uf.v,
                                              !.user_market_position = st.v.position,
                                              !.user_margin = st.v.margin]
                          mmr_required == mul_bps_u64(acc1.user_margin.total_notional,
                                                      acc.market.risk_params.mmr_bps)
                      IN IF ~(acc1.user_margin.collateral_balance < mmr_required)
                         THEN Fail("NotLiquidatable", acc1)
                         ELSE liquidate_reduce(acc1, executor, market_id, leg, close_qty)

\* Faulty variant of place_order: the nonce is not advanced.
place_order_same_nonce(acc, now_, market_id, side, order_type, reduce_only, order_margin, price, ttl_secs, client_order_id) ==
    IF ~(order_margin > 0) THEN Fail("InvalidAmount", acc)
    ELSE IF ~(ttl_secs > 0) THEN Fail("InvalidTtl", acc)
    ELSE IF ~(ttl_secs <= acc.engine_config.max_ttl_secs) THEN Fail("TtlTooLong", acc)
    ELSE IF ~(acc.market.market_id = market_id) THEN Fail("MarketMismatch", acc)
    ELSE IF acc.global_config.global_pause THEN Fail("GlobalPaused", acc)
    ELSE IF ~(acc.market.status = "Active") THEN Fail("MarketNotActive", acc)
    ELSE IF ~(price > 0) THEN Fail("InvalidLimitPrice", acc)
    ELSE IF ~(acc.user_margin.owner = acc.user) THEN Fail("Unauthorized", acc)
    ELSE LET rc == estimate_order_reservation(reduce_only, order_margin, acc.market) IN
         IF ~IsOk(rc) THEN Fail(rc.err, acc)
         ELSE IF ~(acc.user_margin.collateral_balance >= rc.v)
         THEN Fail("InsufficientCollateral", acc)
         ELSE Done([acc EXCEPT
                      !.user_margin.collateral_balance = @ - rc.v,
                      !.order = [id |-> acc.user_margin.next_order_nonce,
                                 user |-> acc.user,
                                 market_id |-> market_id,
                                 side |-> side,
                                 order_type |-> order_type,
                                 reduce_only |-> reduce_only,
                                 margin |-> order_margin,
                                 price |-> price,
                                 created_at |-> now_,
                                 expires_at |-> now_ + ttl_secs,
                                 client_order_id |-> client_order_id,
                                 status |-> "Open"],
                      !.user_margin.next_order_nonce = @])

(* instructions/place_order.rs: handler.  acc.order is the account being  *)
(* initialised; acc.user is the signer.                                   *)
place_order(acc, now_, market_id, side, order_type, reduce_only, order_margin, price, ttl_secs, client_order_id) ==
    IF ~(order_margin > 0) THEN Fail("InvalidAmount", acc)
    ELSE IF ~(ttl_secs > 0) THEN Fail("InvalidTtl", acc)
    ELSE IF ~(ttl_secs <= acc.engine_config.max_ttl_secs) THEN Fail("TtlTooLong", acc)
    ELSE IF ~(acc.market.market_id = market_id) THEN Fail("MarketMismatch", acc)
    ELSE IF acc.global_config.global_pause THEN Fail("GlobalPaused", acc)
    ELSE IF ~(acc.market.status = "Active") THEN Fail("MarketNotActive", acc)
    ELSE IF ~(price > 0) THEN Fail("InvalidLimitPrice", acc)
    ELSE IF ~(acc.user_margin.owner = acc.user) THEN Fail("Unauthorized", acc)
    ELSE LET rc == estimate_order_reservation(reduce_only, order_margin, acc.market) IN
         IF ~IsOk(rc) THEN Fail(rc.err, acc)
         ELSE IF ~(acc.user_margin.collateral_balance >= rc.v)
         THEN Fail("InsufficientCollateral", acc)
         ELSE Done([acc EXCEPT
                      !.user_margin.collateral_balance = @ - rc.v,
                      !.order = [id |-> acc.user_margin.next_order_nonce,
                                 user |-> acc.user,
                                 market_id |-> market_id,
                                 side |-> side,
                                 order_type |-> order_type,
                                 reduce_only |-> reduce_only,
                                 margin |-> order_margin,
                                 price |-> price,
                                 created_at |-> now_,
                                 expires_at |-> now_ + ttl_secs,
                                 client_order_id |-> client_order_id,
                                 status |-> "Open"],
                      !.user_margin.next_order_nonce = @ + 1])

\* Faulty variant of cancel_order: refused while trading is stopped or after
\* the order's TTL.
cancel_order_while_trading(acc) ==
    IF ~(acc.user_margin.owner = acc.user) THEN Fail("Unauthorized", acc)
    ELSE IF ~(acc.order.user = acc.user) THEN Fail("Unauthorized", acc)
    ELSE IF acc.global_config.global_pause THEN Fail("GlobalPaused", acc)
    ELSE IF ~(acc.market.status = "Active") THEN Fail("MarketNotActive", acc)
    ELSE IF acc.market_funding_state.halted THEN Fail("MarketHaltedLocal", acc)
    ELSE IF ~(acc.order.status = "Open") THEN Fail("OrderNotOpen", acc)
    ELSE LET rc == estimate_order_reservation(acc.order.reduce_only, acc.order.margin,
                                              acc.market)
         IN IF ~IsOk(rc) THEN Fail(rc.err, acc)
            ELSE Done([acc EXCEPT !.user_margin.collateral_balance = @ + rc.v,
                                  !.order.status = "Cancelled"])

\* Faulty variant of cancel_order: the order's status is not checked.
cancel_order_any(acc) ==
    IF ~(acc.user_margin.owner = acc.user) THEN Fail("Unauthorized", acc)
    ELSE IF ~(acc.order.user = acc.user) THEN Fail("Unauthorized", acc)
    ELSE LET rc == estimate_order_reservation(acc.order.reduce_only, acc.order.margin,
                                              acc.market)
         IN IF ~IsOk(rc) THEN Fail(rc.err, acc)
            ELSE Done([acc EXCEPT !.user_margin.collateral_balance = @ + rc.v,
                                  !.order.status = "Cancelled"])

(* instructions/cancel_order.rs: handler; the account constraints first *)
cancel_order(acc) ==
    IF ~(acc.user_margin.owner = acc.user) THEN Fail("Unauthorized", acc)
    ELSE IF ~(acc.order.user = acc.user) THEN Fail("Unauthorized", acc)
    ELSE IF ~(acc.order.status = "Open") THEN Fail("OrderNotOpen", acc)
    ELSE LET rc == estimate_order_reservation(acc.order.reduce_only, acc.order.margin,
                                              acc.market)
         IN IF ~IsOk(rc) THEN Fail(rc.err, acc)
            ELSE Done([acc EXCEPT !.user_margin.collateral_balance = @ + rc.v,
                                  !.order.status = "Cancelled"])

\* Faulty variant of cancel_order_by_executor: the order's status is not
\* checked.
cancel_order_by_executor_any(acc, executor) ==
    LET auth == assert_executor_authorized(executor, acc.global_config, acc.keeper_set) IN
    IF ~IsOk(auth) THEN Fail(auth.err, acc)
    ELSE LET rc == estimate_order_reservation(acc.order.reduce_only, acc.order.margin,
                                              acc.market)
         IN IF ~IsOk(rc) THEN Fail(rc.err, acc)
            ELSE Done([acc EXCEPT !.user_margin.collateral_balance = @ + rc.v,
                                  !.order.status = "Cancelled"])

(* instructions/cancel_order_by_executor.rs: handler *)
cancel_order_by_executor(acc, executor) ==
    LET auth == assert_executor_authorized(executor, acc.global_config, acc.keeper_set) IN
    IF ~IsOk(auth) THEN Fail(auth.err, acc)
    ELSE IF ~(acc.order.status = "Open") THEN Fail("OrderNotOpen", acc)
    ELSE LET rc == estimate_order_reservation(acc.order.reduce_only, acc.order.margin,
                                              acc.market)
         IN IF ~IsOk(rc) THEN Fail(rc.err, acc)
            ELSE Done([acc EXCEPT !.user_margin.collateral_balance = @ + rc.v,
                                  !.order.status = "Cancelled"])

(* instructions/deposit_collateral.rs: handler.  The trader's own token   *)
(* account is outside the model: the transfer into the vault succeeds.    *)
deposit_collateral(acc, amount) ==
    IF ~(amount > 0) THEN Fail("InvalidAmount", acc)
    ELSE IF ~(acc.user_margin.owner = acc.user) THEN Fail("Unauthorized", acc)
    ELSE Done([acc EXCEPT !.vaults["collateral_vault"] = @ + amount,
                          !.user_margin.collateral_balance = @ + amount])

(* instructions/withdraw_collateral.rs: handler *)
withdraw_collateral(acc, amount) ==
    IF ~(amount > 0) THEN Fail("InvalidAmount", acc)
    ELSE IF ~(acc.user_margin.owner = acc.user) THEN Fail("Unauthorized", acc)
    ELSE LET collateral_balance == acc.user_margin.collateral_balance IN
         IF ~(collateral_balance >= amount) THEN Fail("InsufficientCollateral", acc)
         ELSE LET post_collateral == collateral_balance - amount
                  required_margin == mul_bps_u64(acc.user_margin.total_notional,
                                                 acc.engine_config.max_imr_bps)
              IN IF ~(post_collateral >= required_margin)
                 THEN Fail("MarginRequirementViolation", acc)
                 ELSE IF acc.vaults["collateral_vault"] < amount
                 THEN Fail("TokenInsufficientFunds", acc)
                 ELSE Done([acc EXCEPT
                              !.vaults["collateral_vault"] = @ - amount,
                              !.user_margin.collateral_balance = post_collateral])

-----------------------------------------------------------------------------
(* market_registry *)

(* helpers.rs: require_admin; the keeper-set account is a fixed PDA *)
require_admin(authority, gc) ==
    IF authority # gc.multisig THEN Err("Unauthorized") ELSE Ok(TRUE)

(* state/types.rs: the validate methods *)
\* Faulty variant of RiskParams::validate: the initial margin is not
\* compared with the maintenance margin.
RiskParams_validate_unordered(p) ==
    IF ~(p.max_leverage >= 1) THEN Err("InvalidRiskParams")
    ELSE IF ~(p.imr_bps <= 10000) THEN Err("InvalidRiskParams")
    ELSE IF ~(p.mmr_bps <= 10000) THEN Err("InvalidRiskParams")
    ELSE IF ~(p.oi_cap > 0) THEN Err("InvalidRiskParams")
    ELSE IF ~(p.max_trade_notional > 0) THEN Err("InvalidRiskParams")
    ELSE Ok(TRUE)

RiskParams_validate(p) ==
    IF ~(p.max_leverage >= 1) THEN Err("InvalidRiskParams")
    ELSE IF ~(p.imr_bps > p.mmr_bps) THEN Err("InvalidRiskParams")
    ELSE IF ~(p.imr_bps <= 10000) THEN Err("InvalidRiskParams")
    ELSE IF ~(p.mmr_bps <= 10000) THEN Err("InvalidRiskParams")
    ELSE IF ~(p.oi_cap > 0) THEN Err("InvalidRiskParams")
    ELSE IF ~(p.max_trade_notional > 0) THEN Err("InvalidRiskParams")
    ELSE Ok(TRUE)

PricingParams_validate(p) ==
    IF ~(p.max_fill_deviation_bps <= 5000) THEN Err("InvalidPricingParams")
    ELSE IF ~(p.max_oracle_staleness_sec > 0) THEN Err("InvalidPricingParams")
    ELSE IF ~(p.max_conf_bps <= 10000) THEN Err("InvalidPricingParams")
    ELSE Ok(TRUE)

FundingParams_validate(p) ==
    IF ~(p.interval_sec > 0) THEN Err("InvalidFundingParams")
    ELSE IF ~(p.funding_velocity_cap_bps_per_day >= 0) THEN Err("InvalidFundingParams")
    ELSE IF ~(p.premium_clamp_bps >= 0) THEN Err("InvalidFundingParams")
    ELSE Ok(TRUE)

FeeParams_validate(p) ==
    IF ~(p.taker_fee_bps <= 1000) THEN Err("InvalidFeeParams")
    ELSE IF ~(p.maker_fee_bps <= 1000) THEN Err("InvalidFeeParams")
    ELSE Ok(TRUE)

(* instructions/update_market_params.rs: handler *)
update_market_params(mkt, gc, authority, risk_params, pricing_params, funding_params, fee_params) ==
    LET a == require_admin(authority, gc)
        r == RiskParams_validate(risk_params)
        p == PricingParams_validate(pricing_params)
        f == FundingParams_validate(funding_params)
        e == FeeParams_validate(fee_params)
    IN IF ~IsOk(a) THEN a
       ELSE IF ~IsOk(r) THEN r
       ELSE IF ~IsOk(p) THEN p
       ELSE IF ~IsOk(f) THEN f
       ELSE IF ~IsOk(e) THEN e
       ELSE Ok([mkt EXCEPT !.risk_params = risk_params,
                           !.pricing_params = pricing_params,
                           !.funding_params = funding_params,
                           !.fee_params = fee_params])

(* instructions/set_market_status.rs: handler *)
set_market_status(mkt, gc, authority, status) ==
    LET a == require_admin(authority, gc) IN
    IF ~IsOk(a) THEN a ELSE Ok([mkt EXCEPT !.status = status])

(* instructions/set_global_pause.rs: handler *)
set_global_pause(gc, authority, paused) ==
    LET a == require_admin(authority, gc) IN
    IF ~IsOk(a) THEN a ELSE Ok([gc EXCEPT !.global_pause = paused])

(* instructions/add_keeper.rs: handler *)
add_keeper(ks, gc, authority, keeper) ==
    LET a == require_admin(authority, gc) IN
    IF ~IsOk(a) THEN a
    ELSE IF ~(Len(ks.keepers) < MAX_KEEPERS) THEN Err("KeeperSetFull")
    ELSE IF Contains(ks.keepers, keeper) THEN Err("KeeperAlreadyExists")
    ELSE Ok([ks EXCEPT !.keepers = Append(@, keeper)])

\* Vec::swap_remove: the last element takes the place of the removed one.
swap_remove(seq, idx) ==
    LET n == Len(seq) IN
    IF idx = n THEN SubSeq(seq, 1, n - 1)
    ELSE SubSeq(seq, 1, idx - 1) \o <<seq[n]>> \o SubSeq(seq, idx + 1, n - 1)

(* instructions/remove_keeper.rs: handler *)
remove_keeper(ks, gc, authority, keeper) ==
    LET a == require_admin(authority, gc) IN
    IF ~IsOk(a) THEN a
    ELSE IF ~Contains(ks.keepers, keeper) THEN Err("KeeperNotFound")
    ELSE LET idx == CHOOSE i \in 1..Len(ks.keepers) :
                        /\ ks.keepers[i] = keeper
                        /\ \A j \in 1..(i - 1) : ks.keepers[j] # keeper
         IN Ok([ks EXCEPT !.keepers = swap_remove(@, idx)])

-----------------------------------------------------------------------------
(* Configuration the instructions are called with *)

\* order_engine EngineConfig as initialize_engine stores it.
engine_config ==
    [max_ttl_secs |-> 2, liquidation_penalty_bps |-> 1000, max_imr_bps |-> 1000]

BasePrice == 10 * PRICE_SCALE

RiskA == [max_leverage |-> 10, imr_bps |-> 1000, mmr_bps |-> 500, oi_cap |-> 5000,
          skew_cap |-> 5000, max_trade_notional |-> 2000]
RiskB == [RiskA EXCEPT !.imr_bps = 2000, !.mmr_bps = 1000]
RiskBad == [RiskA EXCEPT !.mmr_bps = 1000]
PricingA == [base_spread_bps |-> 0, skew_coeff_bps |-> 0, max_fill_deviation_bps |-> 500,
             max_oracle_staleness_sec |-> 1, max_conf_bps |-> 100]
FundingA == [interval_sec |-> 1, funding_velocity_cap_bps_per_day |-> SECONDS_PER_DAY,
             premium_clamp_bps |-> 500]
FeeA == [taker_fee_bps |-> 10, maker_fee_bps |-> 0]
FeeB == [taker_fee_bps |-> 20, maker_fee_bps |-> 0]

ParamSets ==
    { [risk |-> RiskA, pricing |-> PricingA, funding |-> FundingA, fee |-> FeeA],
      [risk |-> RiskB, pricing |-> PricingA, funding |-> FundingA, fee |-> FeeB],
      [risk |-> RiskBad, pricing |-> PricingA, funding |-> FundingA, fee |-> FeeA] }

MarketStatuses == {"Active", "Paused"}

\* place_order arguments.  Two orders the handler accepts, and one rejected
\* order per argument check.
GoodOrders ==
    { [side |-> "Buy", order_type |-> "Limit", reduce_only |-> FALSE,
       margin |-> 1000, price |-> BasePrice, ttl_secs |-> 1],
      [side |-> "Sell", order_type |-> "Market", reduce_only |-> TRUE,
       margin |-> 500, price |-> BasePrice, ttl_secs |-> 1] }
AnOrder == CHOOSE o \in GoodOrders : o.side = "Buy" /\ o.margin = 1000
OrderInputs ==
    GoodOrders \cup { [AnOrder EXCEPT !.margin = 0], [AnOrder EXCEPT !.price = 0],
                      [AnOrder EXCEPT !.ttl_secs = 0], [AnOrder EXCEPT !.ttl_secs = 3] }

DepositAmounts == {0, 200}
WithdrawAmounts == {0, 200, 500}
MaxBalance == 200

FillPrices == {0, BasePrice, BasePrice + 200}
CloseQtys == {0, 50, 100, 200}

\* execute_order oracle arguments: the price-update account and the fallback triple.
SystemAccount == [key |-> "system"]
FeedAccount(wire, publish_time, conf) ==
    [key |-> "feed", wire |-> wire,
     price_message |-> [price |-> 100, conf |-> conf, exponent |-> -1,
                        publish_time |-> publish_time]]
\* Fallback triples and feed accounts around the current time: fresh,
\* publish time 0 (replaced by the clock), stale, future, zero price, wide
\* confidence; fully verified feed records that are fresh, stale and from the
\* future, and a partially verified one.
OracleInputs ==
    { [price_update |-> SystemAccount, price |-> BasePrice, conf |-> 0,
       publish_time |-> t] : t \in {0, now, now - 2, now + 1} }
    \cup
    { [price_update |-> SystemAccount, price |-> 0, conf |-> 0, publish_time |-> now],
      [price_update |-> SystemAccount, price |-> BasePrice, conf |-> 300,
       publish_time |-> now],
      [price_update |-> FeedAccount("partial", now, 0), price |-> 0, conf |-> 0,
       publish_time |-> 0] }
    \cup
    { [price_update |-> FeedAccount("full", t, 0), price |-> 0, conf |-> 0,
       publish_time |-> 0] : t \in {now, now - 2, now + 1} }

FreshOracle ==
    [price_update |-> SystemAccount, price |-> BasePrice, conf |-> 0, publish_time |-> now]

\* execute_order calls, each with the keeper's rebate account: the keeper's
\* call at each fill price and with each oracle input, and the calls of the
\* other signers.
ExecuteInputs ==
    { [executor |-> "k1", rebate |-> "k1", fill_price |-> p, oracle |-> FreshOracle] :
        p \in FillPrices }
    \cup
    { [executor |-> "k1", rebate |-> "k1", fill_price |-> BasePrice, oracle |-> o] :
        o \in OracleInputs }
    \cup
    { [executor |-> e, rebate |-> "k1", fill_price |-> BasePrice, oracle |-> FreshOracle] :
        e \in Executors }

\* liquidate calls: the keeper's call at each close quantity, and the calls of
\* every signer on each leg, with the signer's own rebate account if it has one.
LiquidateInputs ==
    { [executor |-> "k1", rebate |-> "k1", leg |-> "Long", close_qty |-> q] :
        q \in CloseQtys }
    \cup
    { [executor |-> e, rebate |-> IF e \in RebateHolders THEN e ELSE "k1",
       leg |-> l, close_qty |-> 100] :
        e \in Executors, l \in {"Long", "Short"} }

-----------------------------------------------------------------------------
(* The state after initialize_global, create_market, initialize_pool,      *)
(* initialize_engine, initialize_market_funding_state, init_keeper_rebate, *)
(* create_margin_account and create_user_market_position.                  *)

(* instructions/initialize_market_funding_state.rs: handler *)
initialize_market_funding_state(market_id, now_) ==
    [market_id |-> market_id, funding_index |-> 0, last_update_ts |-> now_,
     open_interest |-> 0, skew |-> 0, halted |-> FALSE]

(* instructions/create_margin_account.rs: handler *)
create_margin_account(user) ==
    [owner |-> user, collateral_balance |-> 0, next_order_nonce |-> 0,
     total_notional |-> 0]

(* instructions/create_user_market_position.rs: handler *)
create_user_market_position(user, market_id) ==
    [user_margin |-> user, market_id |-> market_id, long_qty |-> 0,
     long_entry_notional |-> 0, short_qty |-> 0, short_entry_notional |-> 0,
     last_funding_index_long |-> 0, last_funding_index_short |-> 0]

(* market_registry helpers.rs: to_fixed_symbol; symbol_fits says that the  *)
(* symbol is not empty and no longer than SYMBOL_LEN                       *)
to_fixed_symbol(symbol_fits) ==
    IF ~symbol_fits THEN Err("InvalidSymbolLength") ELSE Ok(TRUE)

(* market_registry instructions/create_market.rs: handler; the result is   *)
(* the Market account the instruction initialises                          *)
create_market(gc, authority, market_id, symbol_fits, ps) ==
    LET a == require_admin(authority, gc)
        r == RiskParams_validate(ps.risk)
        p == PricingParams_validate(ps.pricing)
        f == FundingParams_validate(ps.funding)
        e == FeeParams_validate(ps.fee)
        s == to_fixed_symbol(symbol_fits)
    IN IF ~IsOk(a) THEN a
       ELSE IF gc.global_pause THEN Err("GlobalPaused")
       ELSE IF ~IsOk(r) THEN r
       ELSE IF ~IsOk(p) THEN p
       ELSE IF ~IsOk(f) THEN f
       ELSE IF ~IsOk(e) THEN e
       ELSE IF ~IsOk(s) THEN s
       ELSE Ok([market_id |-> market_id, status |-> "Active", risk_params |-> ps.risk,
                pricing_params |-> ps.pricing, funding_params |-> ps.funding,
                fee_params |-> ps.fee])

(* lp_vault instructions/initialize_pool.rs: handler *)
initialize_pool ==
    [lp_fee_bps |-> DEFAULT_LP_BPS, insurance_fee_bps |-> DEFAULT_INSURANCE_BPS,
     protocol_fee_bps |-> DEFAULT_PROTOCOL_BPS,
     execution_rebate_usdc |-> DEFAULT_EXECUTION_REBATE_USDC,
     pending_keeper_rebates |-> 0, total_trading_fees |-> 0,
     cumulative_trader_pnl |-> 0]

VaultNames == {"collateral_vault", "lp_liquidity_vault", "lp_insurance_vault",
               "lp_protocol_fee_vault"}

\* No helper function is applied on its own while the instructions run.
NoCall == [fn |-> "none", done |-> TRUE]

\* The accounts other than the market.
InitOtherAccounts ==
    /\ now = 0
    /\ global_config = [multisig |-> MULTISIG, global_pause |-> FALSE]
    /\ keeper_set = [keepers |-> <<>>]
    /\ market_funding_state = initialize_market_funding_state(1, 0)
    /\ user_margin = [u \in Users |-> create_margin_account(u)]
    /\ user_market_position = [u \in Users |-> create_user_market_position(u, 1)]
    /\ orders = [u \in Users |-> <<>>]
    /\ reserved = [u \in Users |-> <<>>]
    /\ vaults = [v \in VaultNames |-> 0]
    /\ pool = initialize_pool
    /\ keeper_rebate = [k \in RebateHolders |-> 0]

InitAccounts ==
    /\ InitOtherAccounts
    /\ market = create_market([multisig |-> MULTISIG, global_pause |-> FALSE], MULTISIG, 1,
                               TRUE, [risk |-> RiskA, pricing |-> PricingA,
                                      funding |-> FundingA, fee |-> FeeA]).v

Init == InitAccounts /\ call = NoCall

-----------------------------------------------------------------------------
(* Accounts of an instruction, and the write-back at the program entry     *)

\* The order slot a new order is initialised in.
NoOrder == [status |-> "Uninitialized"]

Accounts(u, ord, signer, rk) ==
    [global_config |-> global_config,
     keeper_set |-> keeper_set,
     market |-> market,
     engine_config |-> engine_config,
     market_funding_state |-> market_funding_state,
     user_margin |-> user_margin[u],
     user_market_position |-> user_market_position[u],
     order |-> ord,
     vaults |-> vaults,
     pool |-> pool,
     keeper_rebate |-> [keeper |-> rk, amount |-> keeper_rebate[rk]],
     user |-> signer]

\* Faulty variant of Commit: the accounts are written back as the handler left
\* them, whatever it returned.
CommitInMemory(r, acc) == r.acc

\* lib.rs #[program]: the accounts are written back only if the handler
\* returned Ok; an error aborts the transaction.
Commit(r, acc) == IF r.err = "Ok" THEN r.acc ELSE acc

\* The amount held for order i of trader u: what placement debited while the
\* order is open, nothing once it is settled.
Held(u, i, ord) ==
    [reserved EXCEPT ![u][i] = IF ord.status = "Open" THEN @ ELSE 0]

\* Write the accounts other than the order back to the state.
Store(c, u) ==
    /\ market_funding_state' = c.market_funding_state
    /\ user_margin' = [user_margin EXCEPT ![u] = c.user_margin]
    /\ user_market_position' = [user_market_position EXCEPT ![u] = c.user_market_position]
    /\ vaults' = c.vaults
    /\ pool' = c.pool
    /\ keeper_rebate' = [keeper_rebate EXCEPT ![c.keeper_rebate.keeper] =
                                                  c.keeper_rebate.amount]

-----------------------------------------------------------------------------
(* The instructions as the program entry receives them: the accounts a     *)
(* call names, and the handler's result on them.                           *)

\* lib.rs: deposit_collateral / withdraw_collateral, signed by trader u
FundsAccounts(u) == Accounts(u, NoOrder, u, "k1")
DepositCall(u, amount) == deposit_collateral(FundsAccounts(u), amount)
WithdrawCall(u, amount) == withdraw_collateral(FundsAccounts(u), amount)

\* lib.rs: place_order, signed by trader u
PlaceCall(u, inp) ==
    place_order(FundsAccounts(u), now, market.market_id, inp.side, inp.order_type,
                inp.reduce_only, inp.margin, inp.price, inp.ttl_secs, 0)

\* lib.rs: cancel_order on order i of trader u, signed by signer
CancelAccounts(u, i, signer) == Accounts(signer, orders[u][i], signer, "k1")
CancelCall(u, i, signer) == cancel_order(CancelAccounts(u, i, signer))

\* lib.rs: cancel_order_by_executor on order i of trader u
ExecutorCancelAccounts(u, i, executor) == Accounts(u, orders[u][i], executor, "k1")
ExecutorCancelCall(u, i, executor) ==
    cancel_order_by_executor(ExecutorCancelAccounts(u, i, executor), executor)

\* lib.rs: execute_order on order i of trader u
ExecuteAccounts(u, i, inp) == Accounts(u, orders[u][i], inp.executor, inp.rebate)
ExecuteCall(u, i, inp) ==
    execute_order(ExecuteAccounts(u, i, inp), inp.executor, now, inp.fill_price,
                  inp.oracle.price_update, inp.oracle.price, inp.oracle.conf,
                  inp.oracle.publish_time)

\* lib.rs: liquidate on the position of trader u
LiquidateAccounts(u, inp) == Accounts(u, NoOrder, inp.executor, inp.rebate)
LiquidateCall(u, inp) ==
    liquidate(LiquidateAccounts(u, inp), inp.executor, now, market.market_id, inp.leg,
              inp.close_qty)

-----------------------------------------------------------------------------
(* Actions: one per instruction *)

Tick ==
    /\ now < MaxTime
    /\ now' = now + 1
    /\ UNCHANGED <<call, registry_vars, engine_vars>>

AddKeeper ==
    \E authority \in Admins, keeper \in KeeperCandidates :
        LET r == add_keeper(keeper_set, global_config, authority, keeper) IN
        /\ keeper_set' = IF IsOk(r) THEN r.v ELSE keeper_set
        /\ UNCHANGED <<call, now, global_config, market, engine_vars>>

RemoveKeeper ==
    \E authority \in Admins, keeper \in KeeperCandidates :
        LET r == remove_keeper(keeper_set, global_config, authority, keeper) IN
        /\ keeper_set' = IF IsOk(r) THEN r.v ELSE keeper_set
        /\ UNCHANGED <<call, now, global_config, market, engine_vars>>

SetGlobalPause ==
    \E authority \in Admins, paused \in BOOLEAN :
        LET r == set_global_pause(global_config, authority, paused) IN
        /\ global_config' = IF IsOk(r) THEN r.v ELSE global_config
        /\ UNCHANGED <<call, now, keeper_set, market, engine_vars>>

SetMarketStatus ==
    \E authority \in Admins, status \in MarketStatuses :
        LET r == set_market_status(market, global_config, authority, status) IN
        /\ market' = IF IsOk(r) THEN r.v ELSE market
        /\ UNCHANGED <<call, now, global_config, keeper_set, engine_vars>>

UpdateMarketParamsFrom(param_sets) ==
    \E authority \in Admins, ps \in param_sets :
        LET r == update_market_params(market, global_config, authority, ps.risk,
                                      ps.pricing, ps.funding, ps.fee)
        IN /\ market' = IF IsOk(r) THEN r.v ELSE market
           /\ UNCHANGED <<call, now, global_config, keeper_set, engine_vars>>

UpdateMarketParams == UpdateMarketParamsFrom(ParamSets)

DepositCollateral ==
    \E u \in Users, amount \in DepositAmounts :
        /\ user_margin[u].collateral_balance + amount <= MaxBalance
        /\ Store(Commit(DepositCall(u, amount), FundsAccounts(u)), u)
        /\ UNCHANGED <<call, now, registry_vars, orders, reserved>>

WithdrawCollateral ==
    \E u \in Users, amount \in WithdrawAmounts :
        /\ Store(Commit(WithdrawCall(u, amount), FundsAccounts(u)), u)
        /\ UNCHANGED <<call, now, registry_vars, orders, reserved>>

PlaceOrderFrom(order_inputs) ==
    \E u \in Users, inp \in order_inputs :
        /\ Len(orders[u]) < MaxOrders
        /\ LET acc == FundsAccounts(u)
               r == PlaceCall(u, inp)
               c == Commit(r, acc)
           IN /\ Store(c, u)
              /\ orders' = IF IsOk(r) THEN [orders EXCEPT ![u] = Append(@, c.order)]
                           ELSE orders
              /\ reserved' = IF IsOk(r)
                             THEN [reserved EXCEPT ![u] = Append(@,
                                      acc.user_margin.collateral_balance
                                          - c.user_margin.collateral_balance)]
                             ELSE reserved
        /\ UNCHANGED <<call, now, registry_vars>>

PlaceOrder == PlaceOrderFrom(OrderInputs)

CancelOrder ==
    \E u \in Users, i \in 1..MaxOrders, signer \in Users :
        /\ i <= Len(orders[u])
        /\ LET c == Commit(CancelCall(u, i, signer), CancelAccounts(u, i, signer))
           IN /\ Store(c, signer)
              /\ orders' = [orders EXCEPT ![u][i] = c.order]
              /\ reserved' = Held(u, i, c.order)
        /\ UNCHANGED <<call, now, registry_vars>>

CancelOrderByExecutor ==
    \E u \in Users, i \in 1..MaxOrders, executor \in Executors :
        /\ i <= Len(orders[u])
        /\ LET c == Commit(ExecutorCancelCall(u, i, executor),
                           ExecutorCancelAccounts(u, i, executor))
           IN /\ Store(c, u)
              /\ orders' = [orders EXCEPT ![u][i] = c.order]
              /\ reserved' = Held(u, i, c.order)
        /\ UNCHANGED <<call, now, registry_vars>>

ExecuteOrderFrom(execute_inputs) ==
    \E u \in Users, i \in 1..MaxOrders, inp \in execute_inputs :
        /\ i <= Len(orders[u])
        /\ LET c == Commit(ExecuteCall(u, i, inp), ExecuteAccounts(u, i, inp))
           IN /\ Store(c, u)
              /\ orders' = [orders EXCEPT ![u][i] = c.order]
              /\ reserved' = Held(u, i, c.order)
        /\ UNCHANGED <<call, now, registry_vars>>

ExecuteOrder == ExecuteOrderFrom(ExecuteInputs)

LiquidateFrom(liquidate_inputs) ==
    \E u \in Users, inp \in liquidate_inputs :
        /\ Store(Commit(LiquidateCall(u, inp), LiquidateAccounts(u, inp)), u)
        /\ UNCHANGED <<call, now, registry_vars, orders, reserved>>

Liquidate == LiquidateFrom(LiquidateInputs)

Next ==
    \/ Tick
    \/ AddKeeper
    \/ RemoveKeeper
    \/ SetGlobalPause
    \/ SetMarketStatus
    \/ UpdateMarketParams
    \/ DepositCollateral
    \/ WithdrawCollateral
    \/ PlaceOrder
    \/ CancelOrder
    \/ CancelOrderByExecutor
    \/ ExecuteOrder
    \/ Liquidate

Spec == Init /\ [][Next]_vars

-----------------------------------------------------------------------------
(* The risk checks of execution: the same instructions, called with buy    *)
(* orders of two sizes and a sell order, at two oracle prices, under       *)
(* market parameters with tight caps and with a low initial margin rate;   *)
(* the clock stands still.                                                 *)

RiskTight == [RiskA EXCEPT !.max_trade_notional = 500, !.oi_cap = 1005, !.skew_cap = 5]
RiskLow == [RiskA EXCEPT !.imr_bps = 500, !.mmr_bps = 250]
RiskParamSets ==
    { [risk |-> r, pricing |-> PricingA, funding |-> FundingA, fee |-> FeeA] :
        r \in {RiskA, RiskTight, RiskLow} }

SmallOrder == [AnOrder EXCEPT !.margin = 10]
LowPrice == BasePrice - 300
SellOrder == [AnOrder EXCEPT !.side = "Sell", !.margin = 300, !.price = LowPrice]
RiskOrderInputs == {AnOrder, SmallOrder, SellOrder}

LowOracle == [FreshOracle EXCEPT !.price = LowPrice]
RiskExecuteInputs ==
    { [executor |-> "k1", rebate |-> "k1", fill_price |-> o.price, oracle |-> o] :
        o \in {FreshOracle, LowOracle} }

RiskUpdateMarketParams == UpdateMarketParamsFrom(RiskParamSets)
RiskPlaceOrder == PlaceOrderFrom(RiskOrderInputs)
RiskExecuteOrder == ExecuteOrderFrom(RiskExecuteInputs)

NextRisk ==
    \/ AddKeeper
    \/ RiskUpdateMarketParams
    \/ DepositCollateral
    \/ RiskPlaceOrder
    \/ RiskExecuteOrder

SpecRisk == Init /\ [][NextRisk]_vars

-----------------------------------------------------------------------------
(* Liquidation of a position bought below the price scale, where one unit  *)
(* of quantity carries less than one unit of notional: a buy and a sell    *)
(* order and reduce-only orders against them, filled at half the price     *)
(* scale, and liquidate calls that close nothing, one unit,                *)
(* a part, the whole leg and more than the leg; the clock stands still.    *)

CheapPrice == PRICE_SCALE \div 2
CheapOrder == [AnOrder EXCEPT !.price = CheapPrice]
CheapSell == [CheapOrder EXCEPT !.side = "Sell"]
CheapOracle == [FreshOracle EXCEPT !.price = CheapPrice]
CheapExecuteInputs ==
    { [executor |-> "k1", rebate |-> "k1", fill_price |-> CheapPrice,
       oracle |-> CheapOracle] }
CheapCloseQtys == {0, 1, 500, 2000, 2001}
CheapLiquidateInputs ==
    { [executor |-> "k1", rebate |-> "k1", leg |-> l, close_qty |-> q] :
        l \in {"Long", "Short"}, q \in CheapCloseQtys }

CheapReduceSell == [CheapSell EXCEPT !.order_type = "Market", !.reduce_only = TRUE, !.margin = 300]
CheapReduceBuy == [CheapReduceSell EXCEPT !.side = "Buy"]
CheapPlaceOrder == PlaceOrderFrom({CheapOrder, CheapSell, CheapReduceSell, CheapReduceBuy})
CheapExecuteOrder == ExecuteOrderFrom(CheapExecuteInputs)
CheapLiquidate == LiquidateFrom(CheapLiquidateInputs)

NextLiq ==
    \/ AddKeeper
    \/ UpdateMarketParams
    \/ DepositCollateral
    \/ CheapPlaceOrder
    \/ CheapExecuteOrder
    \/ CheapLiquidate

SpecLiq == Init /\ [][NextLiq]_vars

-----------------------------------------------------------------------------
(* The price checks of execution: orders with limit prices away from the  *)
(* oracle price, filled at prices on both sides of each bound, with a      *)
(* narrow and a wide oracle confidence, under pricing parameters without   *)
(* spread, with a spread and a skew coefficient, and with a spread of the  *)
(* whole price; the clock stands still.                                    *)

PricingSpread == [PricingA EXCEPT !.base_spread_bps = 100, !.skew_coeff_bps = 200]
PricingWide == [PricingA EXCEPT !.base_spread_bps = BPS_DENOM]
PriceParamSets ==
    { [risk |-> RiskA, pricing |-> pr, funding |-> FundingA, fee |-> fee] :
        pr \in {PricingA, PricingSpread, PricingWide}, fee \in {FeeA, FeeB} }

HighBuy == [AnOrder EXCEPT !.price = BasePrice + 400]
LowSell == [AnOrder EXCEPT !.side = "Sell", !.margin = 300, !.price = BasePrice - 400]
ReduceSell == [LowSell EXCEPT !.order_type = "Market", !.reduce_only = TRUE, !.margin = 500]
ReduceBuy == [HighBuy EXCEPT !.order_type = "Market", !.reduce_only = TRUE, !.margin = 200]
PriceOrderInputs == {HighBuy, LowSell, ReduceSell, ReduceBuy, [HighBuy EXCEPT !.price = 0]}

PriceFills ==
    { BasePrice + d : d \in {-600, -500, -400, -207, -206, 0, 300, 400, 500, 600} }
PriceConfs == {0, 100, 101}
PriceExecuteInputs ==
    { [executor |-> "k1", rebate |-> "k1", fill_price |-> p,
       oracle |-> [FreshOracle EXCEPT !.conf = c]] : p \in PriceFills, c \in PriceConfs }

PriceUpdateMarketParams == UpdateMarketParamsFrom(PriceParamSets)
PricePlaceOrder == PlaceOrderFrom(PriceOrderInputs)
PriceExecuteOrder == ExecuteOrderFrom(PriceExecuteInputs)

NextPrice ==
    \/ AddKeeper
    \/ PriceUpdateMarketParams
    \/ DepositCollateral
    \/ PricePlaceOrder
    \/ PriceExecuteOrder

SpecPrice == Init /\ [][NextPrice]_vars

-----------------------------------------------------------------------------
(* The market record from its creation on: create_market and               *)
(* update_market_params with parameters on both sides of every check of    *)
(* the validate methods, by the multisig and by another signer.            *)

\* The market account before create_market.
NoMarket == [status |-> "Uninitialized"]

MarketRiskInputs ==
    { RiskA, RiskB, RiskBad,
      [RiskA EXCEPT !.max_leverage = 0],
      [RiskA EXCEPT !.max_leverage = 1],
      [RiskA EXCEPT !.imr_bps = 400],
      [RiskA EXCEPT !.imr_bps = 10000, !.mmr_bps = 9999],
      [RiskA EXCEPT !.imr_bps = 10001],
      [RiskA EXCEPT !.imr_bps = 10002, !.mmr_bps = 10001],
      [RiskA EXCEPT !.oi_cap = 0],
      [RiskA EXCEPT !.max_trade_notional = 0] }
MarketPricingInputs ==
    { PricingA, PricingSpread,
      [PricingA EXCEPT !.max_fill_deviation_bps = 5001],
      [PricingA EXCEPT !.max_oracle_staleness_sec = 0],
      [PricingA EXCEPT !.max_conf_bps = 10001] }
MarketFundingInputs ==
    { FundingA,
      [FundingA EXCEPT !.funding_velocity_cap_bps_per_day = 0, !.premium_clamp_bps = 0],
      [FundingA EXCEPT !.interval_sec = 0],
      [FundingA EXCEPT !.interval_sec = -1],
      [FundingA EXCEPT !.funding_velocity_cap_bps_per_day = -1],
      [FundingA EXCEPT !.premium_clamp_bps = -1] }
MarketFeeInputs ==
    { FeeA, FeeB, [FeeA EXCEPT !.taker_fee_bps = 1001], [FeeA EXCEPT !.maker_fee_bps = 1001] }
MarketParamInputs ==
    { [risk |-> r, pricing |-> p, funding |-> f, fee |-> e] :
        r \in MarketRiskInputs, p \in MarketPricingInputs, f \in MarketFundingInputs,
        e \in MarketFeeInputs }

\* The parameters markets are created with: those with the lower fee.
CreateParamInputs == { ps \in MarketParamInputs : ps.fee # FeeB }

\* lib.rs: create_market by the signer; the account is initialised by the
\* instruction, so the call fails when the market exists.
CreateMarketCall(authority, symbol_fits, ps) ==
    IF market # NoMarket THEN Err("AccountAlreadyInUse")
    ELSE create_market(global_config, authority, 1, symbol_fits, ps)

\* lib.rs: update_market_params by the signer; the call fails when the
\* market account does not exist.
UpdateMarketParamsCall(authority, ps) ==
    IF market = NoMarket THEN Err("AccountNotInitialized")
    ELSE update_market_params(market, global_config, authority, ps.risk, ps.pricing,
                              ps.funding, ps.fee)

CreateMarket ==
    \E authority \in Admins, symbol_fits \in BOOLEAN, ps \in CreateParamInputs :
        LET r == CreateMarketCall(authority, symbol_fits, ps) IN
        /\ market' = IF IsOk(r) THEN r.v ELSE market
        /\ UNCHANGED <<call, now, global_config, keeper_set, engine_vars>>

MarketUpdateParams ==
    \E authority \in Admins, ps \in MarketParamInputs :
        LET r == UpdateMarketParamsCall(authority, ps) IN
        /\ market' = IF IsOk(r) THEN r.v ELSE market
        /\ UNCHANGED <<call, now, global_config, keeper_set, engine_vars>>

MarketSetStatus ==
    /\ market # NoMarket
    /\ SetMarketStatus

NextMarket ==
    \/ SetGlobalPause
    \/ CreateMarket
    \/ MarketUpdateParams
    \/ MarketSetStatus

InitMarket == InitOtherAccounts /\ market = NoMarket /\ call = NoCall

SpecMarket == InitMarket /\ [][NextMarket]_vars

-----------------------------------------------------------------------------
(* The helper functions on their own: the arguments are drawn at the start, *)
(* and one step applies the function to them.                               *)

accounts_vars == <<now, registry_vars, engine_vars>>

Pending(fn, in) == [fn |-> fn, in |-> in, done |-> FALSE]

Apply(fn, out) ==
    /\ call.fn = fn
    /\ ~call.done
    /\ call' = [fn |-> fn, in |-> call.in, out |-> out, done |-> TRUE]
    /\ UNCHANGED accounts_vars

\* update_funding_index arguments: the funding state, the clock, the funding
\* parameters as FundingParams::validate admits them, and the market's oi_cap.
MaxElapsed == 3600
FundingStates ==
    { [initialize_market_funding_state(1, 0) EXCEPT !.skew = s, !.funding_index = f,
                                                     !.open_interest = 1000] :
        s \in {-1000, 0, 300, 1000}, f \in {0, -7} }
FundingParamInputs ==
    { [interval_sec |-> i, funding_velocity_cap_bps_per_day |-> c,
       premium_clamp_bps |-> p] :
        i \in {1, MaxElapsed}, c \in {0, 100, SECONDS_PER_DAY}, p \in {0, 500} }
UpdateFundingInputs ==
    { [fs |-> fs, now_ |-> n, params |-> ps, oi_cap |-> oc] :
        fs \in FundingStates, n \in {0, 1, 2, MaxElapsed},
        ps \in FundingParamInputs, oc \in {0, 5000} }

ApplyUpdateFundingIndex ==
    Apply("update_funding_index",
          update_funding_index(call.in.fs, call.in.now_, call.in.params, call.in.oi_cap))

\* reduce_position arguments: a position with the chosen leg and the other
\* leg filled in, and the quantity to close.
LegInputs == { [qty |-> q, entry_notional |-> e] : q \in {0, 1, 3, 7, 100},
                                                   e \in {0, 10, 999, 1000} }
OtherLegInputs == { [qty |-> 0, entry_notional |-> 0], [qty |-> 3, entry_notional |-> 10] }
PositionOf(leg, l, o) ==
    LET long == IF leg = "Long" THEN l ELSE o
        short == IF leg = "Long" THEN o ELSE l
    IN [create_user_market_position("u1", 1) EXCEPT
           !.long_qty = long.qty, !.long_entry_notional = long.entry_notional,
           !.short_qty = short.qty, !.short_entry_notional = short.entry_notional]
ReducePositionInputs ==
    { [position |-> PositionOf(leg, l, o), leg |-> leg, close_qty |-> c] :
        leg \in {"Long", "Short"}, l \in LegInputs, o \in OtherLegInputs,
        c \in {0, 1, 2, 3, 7, 50, 100, 101} }

ApplyReducePosition ==
    Apply("reduce_position",
          reduce_position(call.in.position, call.in.leg, call.in.close_qty))

\* mul_bps_u64 arguments: values up to the largest u64, and rates below,
\* at and above BPS_DENOM.
MulBpsInputs ==
    { [value |-> v, bps |-> b] :
        v \in {0, 1, 3, 1000, 9999, 10000, 40000, U64_MODULUS - 1},
        b \in {0, 1, 500, 9999, 10000, 10001, 20000, 30000} }

ApplyMulBps ==
    Apply("mul_bps_u64", Ok(mul_bps_u64(call.in.value, call.in.bps)))

\* settle_user_funding arguments: a position with either leg empty or
\* filled and last-settled indices at, below and above the market's funding
\* index, and a margin account with a balance the debit can exceed.
SettlePositions ==
    { [create_user_market_position("u1", 1) EXCEPT
          !.long_qty = lq, !.short_qty = sq,
          !.last_funding_index_long = ll, !.last_funding_index_short = ls] :
        lq \in {0, 3, 100}, sq \in {0, 7, 100}, ll \in {-7, 0, 5000}, ls \in {0, 5000} }
SettleInputs ==
    { [position |-> pos,
       fs |-> [initialize_market_funding_state(1, 0) EXCEPT !.funding_index = idx],
       margin |-> [create_margin_account("u1") EXCEPT !.collateral_balance = c]] :
        pos \in SettlePositions, idx \in {-20000, 0, 4999, 5000, 12345}, c \in {0, 1, 50} }

ApplySettleUserFunding ==
    Apply("settle_user_funding",
          settle_user_funding(call.in.position, call.in.fs, call.in.margin))

\* Feed normalisation arguments: mantissas below, at and above zero up to
\* the largest i64, confidences from zero, and exponents whose power of ten
\* fits the intermediate width and one on each side whose power does not.
MaxExponent == 10
ScaleExponents == {-MaxExponent, -(MaxExponent - 1), -5, -4, -3, -1, 0, 1, 2, MaxExponent}
ScalePriceInputs ==
    { [price |-> p, exponent |-> e] :
        p \in {-5, 0, 1, 7, 65, 66, 100, 9999, (U64_MODULUS \div 2) - 1}, e \in ScaleExponents }
ScaleConfInputs ==
    { [conf |-> c, exponent |-> e] :
        c \in {0, 1, 7, 65, 66, 100, 10001, U64_MODULUS - 1}, e \in ScaleExponents }

ApplyScalePrice ==
    Apply("scale_signed_price_to_engine",
          scale_signed_price_to_engine(call.in.price, call.in.exponent))

ApplyScaleConfidence ==
    Apply("scale_confidence_to_engine",
          scale_confidence_to_engine(call.in.conf, call.in.exponent))

\* Two update_funding_index calls against one: the funding state, the two
\* clock values t1 < t2 after last_update_ts, the funding parameters and the
\* market's oi_cap, unchanged between the calls.
SplitTimes == {1, 2, 864, 865, MaxElapsed}
SplitUpdateInputs ==
    { [fs |-> fs, t1 |-> t1, t2 |-> t2, params |-> ps, oi_cap |-> oc] :
        fs \in FundingStates, t1 \in SplitTimes, t2 \in SplitTimes,
        ps \in FundingParamInputs, oc \in {0, 5000} }

ApplyUpdateFundingIndexTwice ==
    Apply("update_funding_index twice",
          LET first == update_funding_index(call.in.fs, call.in.t1, call.in.params,
                                            call.in.oi_cap)
          IN [first |-> first,
              split |-> update_funding_index(first.v, call.in.t2, call.in.params,
                                             call.in.oi_cap),
              single |-> update_funding_index(call.in.fs, call.in.t2, call.in.params,
                                              call.in.oi_cap)])

\* Two Open orders of two traders on the market, executed one after the other
\* in either order at one clock value with one oracle observation.  The
\* market carries the open interest and skew of other traders' positions;
\* trader A may hold a long position whose funding is unsettled.
PairMarkets ==
    { [oi |-> 0, skew |-> 0], [oi |-> 3000, skew |-> 1000], [oi |-> 3000, skew |-> -1000] }
PairFill(side) == IF side = "Buy" THEN BasePrice + 200 ELSE BasePrice - 200
PairTrader(user, side, order_margin, collateral, holds) ==
    [margin |-> [create_margin_account(user) EXCEPT
                    !.collateral_balance = collateral,
                    !.next_order_nonce = 1,
                    !.total_notional = IF holds THEN 1000 ELSE 0],
     position |-> IF holds
                  THEN [create_user_market_position(user, 1) EXCEPT
                           !.long_qty = 100, !.long_entry_notional = 1000]
                  ELSE create_user_market_position(user, 1),
     order |-> [id |-> 0, user |-> user, market_id |-> 1, side |-> side,
                order_type |-> "Limit", reduce_only |-> FALSE, margin |-> order_margin,
                price |-> PairFill(side), created_at |-> 0, expires_at |-> MaxTime,
                client_order_id |-> 0, status |-> "Open"]]
PairInputs ==
    { [fs |-> [initialize_market_funding_state(1, 0) EXCEPT
                  !.open_interest = m.oi, !.skew = m.skew, !.funding_index = f],
       now_ |-> n, pricing |-> pr,
       a |-> PairTrader("u1", sa, ma, ca, ha /\ m.oi > 0),
       b |-> PairTrader("u2", sb, mb, cb, FALSE)] :
        m \in PairMarkets, f \in {0, 500}, n \in {0, 1}, pr \in {PricingA, PricingSpread},
        sa \in {"Buy", "Sell"}, ma \in {1000, 2000}, ca \in {99, 899}, ha \in BOOLEAN,
        sb \in {"Buy", "Sell"}, mb \in {1000, 2000}, cb \in {99, 899} }

\* The accounts the two executions share.
SharedOf(acc) ==
    [market_funding_state |-> acc.market_funding_state, vaults |-> acc.vaults,
     pool |-> acc.pool, keeper_rebate |-> acc.keeper_rebate]
PairShared(in) ==
    [market_funding_state |-> in.fs,
     vaults |-> [vaults EXCEPT !["collateral_vault"] = 5000],
     pool |-> pool,
     keeper_rebate |-> [keeper |-> MULTISIG, amount |-> keeper_rebate[MULTISIG]]]
PairAccounts(in, t, sh) ==
    [global_config |-> global_config,
     keeper_set |-> keeper_set,
     market |-> [market EXCEPT !.pricing_params = in.pricing],
     engine_config |-> engine_config,
     market_funding_state |-> sh.market_funding_state,
     user_margin |-> t.margin,
     user_market_position |-> t.position,
     order |-> t.order,
     vaults |-> sh.vaults,
     pool |-> sh.pool,
     keeper_rebate |-> sh.keeper_rebate,
     user |-> MULTISIG]

\* lib.rs: execute_order on trader t's order, by the multisig
PairExecute(in, t, sh) ==
    execute_order(PairAccounts(in, t, sh), MULTISIG, in.now_, PairFill(t.order.side),
                  SystemAccount, BasePrice, 0, in.now_)
PairOutcome(in, t, sh) ==
    CHOOSE o \in { [err |-> r.err,
                    margin |-> Commit(r, PairAccounts(in, t, sh)).user_margin,
                    position |-> Commit(r, PairAccounts(in, t, sh)).user_market_position,
                    order |-> Commit(r, PairAccounts(in, t, sh)).order,
                    shared |-> SharedOf(Commit(r, PairAccounts(in, t, sh)))] :
                      r \in {PairExecute(in, t, sh)} } : TRUE
PairRun(in, x, y) ==
    CHOOSE run \in { [first |-> first, second |-> PairOutcome(in, y, first.shared)] :
                        first \in {PairOutcome(in, x, PairShared(in))} } : TRUE

ApplyExecutePair ==
    Apply("execute_order pair",
          [ab |-> PairRun(call.in, call.in.a, call.in.b),
           ba |-> PairRun(call.in, call.in.b, call.in.a)])

FnInputs ==
    { Pending("execute_order pair", in) : in \in PairInputs } \cup
    { Pending("update_funding_index twice", in) : in \in SplitUpdateInputs } \cup
    { Pending("scale_signed_price_to_engine", in) : in \in ScalePriceInputs } \cup
    { Pending("scale_confidence_to_engine", in) : in \in ScaleConfInputs } \cup
    { Pending("settle_user_funding", in) : in \in SettleInputs } \cup
    { Pending("update_funding_index", in) : in \in UpdateFundingInputs }
    \cup { Pending("reduce_position", in) : in \in ReducePositionInputs }
    \cup { Pending("mul_bps_u64", in) : in \in MulBpsInputs }

InitFn == InitAccounts /\ call \in FnInputs

NextFn ==
    \/ ApplyUpdateFundingIndex
    \/ ApplyReducePosition
    \/ ApplyMulBps
    \/ ApplySettleUserFunding
    \/ ApplyScalePrice
    \/ ApplyScaleConfidence
    \/ ApplyUpdateFundingIndexTwice
    \/ ApplyExecutePair

SpecFn == InitFn /\ [][NextFn]_vars

-----------------------------------------------------------------------------
(* Properties *)

\* What a call wrote to the trader's collateral balance in memory.
Refund(r, acc) == r.acc.user_margin.collateral_balance - acc.user_margin.collateral_balance

\* The market's funding state brought up to the current time.
FundingNow ==
    update_funding_index(market_funding_state, now, market.funding_params,
                         market.risk_params.oi_cap)

\* Trader u's margin account after the pending funding is settled.
SettledMargin(u) ==
    settle_user_funding(user_market_position[u], FundingNow.v, user_margin[u]).v.margin

\* Trader u holds at least the maintenance margin once funding is settled.
Healthy(u) ==
    /\ IsOk(FundingNow)
    /\ SettledMargin(u).collateral_balance * 10000 >=
           SettledMargin(u).total_notional * market.risk_params.mmr_bps
              - ((SettledMargin(u).total_notional * market.risk_params.mmr_bps) % 10000)

\* The trader's records and the market aggregates are as before the call.
Untouched(c, acc) ==
    /\ c.user_market_position = acc.user_market_position
    /\ c.user_margin = acc.user_margin
    /\ c.market_funding_state = acc.market_funding_state
    /\ c.order = acc.order

\* The checks of liquidate that come before the funding settlement.
LiquidateEarlyErrors ==
    {"InvalidAmount", "MarketMismatch", "MarketNotActive", "MarketHaltedLocal",
     "InvalidKeeperRebateAccount", "UnauthorizedExecutor"}

\* C1: liquidation never reduces a position of a healthy account.  Whenever,
\* with funding brought up to date and settled, the collateral balance is at
\* least floor(total_notional * mmr_bps / 10000), no liquidate call succeeds,
\* a call that reaches the eligibility check fails with NotLiquidatable, and
\* the position, total_notional, open interest, skew and collateral stay as
\* they were.
C1_HealthyNotLiquidated ==
    \A u \in Users, inp \in LiquidateInputs :
        LET acc == LiquidateAccounts(u, inp)
            r == LiquidateCall(u, inp)
        IN Healthy(u) =>
             /\ r.err # "Ok"
             /\ r.err \notin LiquidateEarlyErrors => r.err = "NotLiquidatable"
             /\ Untouched(Commit(r, acc), acc)

\* C1 witness: a keeper's liquidate call on a healthy account that holds a long
\* position and owes funding; the call settled the funding in memory and
\* failed with NotLiquidatable.
C1_Witness ==
    \E u \in Users, inp \in LiquidateInputs :
        /\ user_market_position[u].long_qty > 0
        /\ Healthy(u)
        /\ LiquidateCall(u, inp).err = "NotLiquidatable"
        /\ Refund(LiquidateCall(u, inp), LiquidateAccounts(u, inp)) < 0

OpenOrders(u) == {i \in 1..Len(orders[u]) : orders[u][i].status = "Open"}

\* C2: reservation round trip.  For every open order, a successful cancel by
\* the owner, a successful cancel by an executor and an expiry at execution
\* each credit the collateral balance with exactly the amount that placement
\* debited, whatever the market parameters are at the time of the call.
C2_ReservationRoundTrip ==
    \A u \in Users : \A i \in OpenOrders(u) :
        /\ CancelCall(u, i, u).err = "Ok" =>
               Refund(CancelCall(u, i, u), CancelAccounts(u, i, u)) = reserved[u][i]
        /\ \A e \in Executors :
               ExecutorCancelCall(u, i, e).err = "Ok" =>
                   Refund(ExecutorCancelCall(u, i, e), ExecutorCancelAccounts(u, i, e))
                       = reserved[u][i]
        /\ \A inp \in ExecuteInputs :
               /\ ExecuteCall(u, i, inp).err = "Ok"
               /\ ExecuteCall(u, i, inp).acc.order.status = "Expired"
               => Refund(ExecuteCall(u, i, inp), ExecuteAccounts(u, i, inp))
                      = reserved[u][i]

Terminal == {"Executed", "Cancelled", "Expired"}

\* A call that failed and left every account as it was.
Rejected(r, acc) == r.err # "Ok" /\ Commit(r, acc) = acc

\* Every cancel, executor-cancel and execute call on a settled order fails and
\* changes nothing.
C3_LaterCallsFail ==
    \A u \in Users : \A i \in 1..Len(orders[u]) :
        orders[u][i].status \in Terminal =>
            /\ \A signer \in Users :
                   Rejected(CancelCall(u, i, signer), CancelAccounts(u, i, signer))
            /\ \A e \in Executors :
                   Rejected(ExecutorCancelCall(u, i, e), ExecutorCancelAccounts(u, i, e))
            /\ \A inp \in ExecuteInputs :
                   Rejected(ExecuteCall(u, i, inp), ExecuteAccounts(u, i, inp))

\* In one step an order is created Open, no order disappears, and a settled
\* order stays as it is.
C3_Step ==
    \A u \in Users :
        /\ Len(orders'[u]) >= Len(orders[u])
        /\ \A i \in 1..Len(orders'[u]) :
               IF i > Len(orders[u]) THEN orders'[u][i].status = "Open"
               ELSE orders[u][i].status \in Terminal => orders'[u][i] = orders[u][i]

\* C3: order status is monotone.  An order is created Open; once it is
\* Executed, Cancelled or Expired no step changes it, and every later cancel,
\* executor-cancel or execute call on it fails and leaves the order, the
\* collateral and the position unchanged.
C3_StatusMonotone == []C3_LaterCallsFail /\ [][C3_Step]_vars

\* C3 witness: an executed order on which a further cancel and a further
\* execution are both refused.
C3_Witness ==
    \E u \in Users : \E i \in 1..Len(orders[u]) : \E inp \in ExecuteInputs :
        /\ orders[u][i].status = "Executed"
        /\ user_market_position[u].long_qty > 0
        /\ CancelCall(u, i, u).err = "OrderNotOpen"
        /\ ExecuteCall(u, i, inp).err = "OrderNotOpen"

\* The funding trader u owes at the current time, before the balance is debited.
FundingDebit(u) ==
    LET pos == user_market_position[u]
        idx == FundingNow.v.funding_index
        long_payment == TruncDiv(pos.long_qty * (idx - pos.last_funding_index_long),
                                 FUNDING_SCALE)
        short_payment == TruncDiv(pos.short_qty * (idx - pos.last_funding_index_short),
                                  FUNDING_SCALE)
    IN long_payment - short_payment

\* The amount place_order holds for an order under the current parameters.
Reservation(inp) ==
    IF inp.reduce_only THEN 0
    ELSE (inp.margin * market.risk_params.imr_bps) \div 10000
         + (inp.margin * market.fee_params.taker_fee_bps) \div 10000

\* The penalty of a liquidation, from the notional it removed.
PenaltyOf(r, acc) ==
    ((acc.user_margin.total_notional - r.acc.user_margin.total_notional)
        * engine_config.liquidation_penalty_bps) \div 10000

C6_HaltPersists ==
    \A u \in Users, inp \in LiquidateInputs :
        LET acc == LiquidateAccounts(u, inp)
            r == LiquidateCall(u, inp)
            c == Commit(r, acc)
        IN r.err = "InsuranceShortfallMarketHalted" =>
               /\ c.market_funding_state.halted
               /\ c.market_funding_state = r.acc.market_funding_state
               /\ c.user_market_position = r.acc.user_market_position
               /\ c.user_margin = r.acc.user_margin

\* C7: the local halt is terminal.  No step takes the halted flag from true to
\* false.
C7_HaltTerminal ==
    [][market_funding_state.halted => market_funding_state'.halted]_vars

\* C7: a state in which the market is halted.
C7_Halted == market_funding_state.halted

\* The market is stopped: not Active in the registry, or halted locally.
Stopped == market.status # "Active" \/ market_funding_state.halted

\* C8: no trading on a stopped market.  While the market is not Active or is
\* halted, every execute_order call (fill or expiry) and every liquidate call
\* is rejected and changes nothing; while the global pause is set, every
\* place_order and every execute_order call is rejected and changes nothing.
\* The status and the flag are read from the registry at the time of the call.
C8_NoTradingWhenStopped ==
    \A u \in Users :
        /\ \A i \in 1..Len(orders[u]) : \A inp \in ExecuteInputs :
               Stopped \/ global_config.global_pause =>
                   Rejected(ExecuteCall(u, i, inp), ExecuteAccounts(u, i, inp))
        /\ \A inp \in LiquidateInputs :
               Stopped => Rejected(LiquidateCall(u, inp), LiquidateAccounts(u, inp))
        /\ \A inp \in OrderInputs :
               global_config.global_pause => Rejected(PlaceCall(u, inp), FundsAccounts(u))

\* C8 witness: the market set to Paused after an order was placed and another
\* filled; the keeper's execution of the open order is refused with
\* MarketNotActive and its liquidate call is refused too.
C8_Witness ==
    \E u \in Users : \E i \in OpenOrders(u) : \E inp \in ExecuteInputs :
        /\ market.status = "Paused"
        /\ ~global_config.global_pause
        /\ user_market_position[u].long_qty > 0
        /\ ExecuteCall(u, i, inp).err = "MarketNotActive"
        /\ \E l \in LiquidateInputs : LiquidateCall(u, l).err = "MarketNotActive"

\* The signer may execute and cancel for traders: the multisig or a keeper.
IsKeeper(e) == \E k \in 1..Len(keeper_set.keepers) : keeper_set.keepers[k] = e
IsExecutor(e) == e = global_config.multisig \/ IsKeeper(e)

\* C9: expiry at execution.  For an Open order past its expires_at on an
\* Active, unpaused, unhalted market, every execute_order call of an
\* authorized executor with a positive fill price, whatever the oracle input,
\* succeeds, makes the order Expired, credits the collateral balance with
\* exactly the amount the order holds, and leaves the position, total_notional,
\* the funding state, the vaults, the pool and the rebate unchanged.
C9_ExpiryAtExecution ==
    \A u \in Users : \A i \in OpenOrders(u) : \A inp \in ExecuteInputs :
        LET acc == ExecuteAccounts(u, i, inp)
            r == ExecuteCall(u, i, inp)
        IN /\ now > orders[u][i].expires_at
           /\ ~Stopped
           /\ ~global_config.global_pause
           /\ IsExecutor(inp.executor)
           /\ inp.fill_price > 0
           => /\ r.err = "Ok"
              /\ r.acc.order = [acc.order EXCEPT !.status = "Expired"]
              /\ Refund(r, acc) = reserved[u][i]
              /\ r.acc.user_margin.total_notional = acc.user_margin.total_notional
              /\ r.acc.user_market_position = acc.user_market_position
              /\ r.acc.market_funding_state = acc.market_funding_state
              /\ r.acc.vaults = acc.vaults
              /\ r.acc.pool = acc.pool
              /\ r.acc.keeper_rebate = acc.keeper_rebate

\* C9 apart from the amount: the same calls succeed, make the order Expired,
\* credit the collateral balance with the reservation computed from the market
\* parameters current at the call, and leave everything else unchanged.
C9_ExpiryRefundsEstimate ==
    \A u \in Users : \A i \in OpenOrders(u) : \A inp \in ExecuteInputs :
        LET acc == ExecuteAccounts(u, i, inp)
            r == ExecuteCall(u, i, inp)
        IN /\ now > orders[u][i].expires_at
           /\ ~Stopped
           /\ ~global_config.global_pause
           /\ IsExecutor(inp.executor)
           /\ inp.fill_price > 0
           => /\ r.err = "Ok"
              /\ r.acc = [acc EXCEPT !.order.status = "Expired",
                                     !.user_margin.collateral_balance =
                                         @ + Reservation(orders[u][i])]

\* C10: executor gating.  An execute_order or cancel_order_by_executor call of
\* a signer that is neither a keeper nor the multisig, and a liquidate call of
\* a signer that is not a keeper (the multisig included), is rejected and
\* changes nothing, whatever the keeper set has become.
C10_ExecutorGating ==
    \A u \in Users :
        /\ \A i \in 1..Len(orders[u]) :
               /\ \A inp \in ExecuteInputs :
                      ~IsExecutor(inp.executor) =>
                          Rejected(ExecuteCall(u, i, inp), ExecuteAccounts(u, i, inp))
               /\ \A e \in Executors :
                      ~IsExecutor(e) =>
                          Rejected(ExecutorCancelCall(u, i, e),
                                   ExecutorCancelAccounts(u, i, e))
        /\ \A inp \in LiquidateInputs :
               ~IsKeeper(inp.executor) =>
                   Rejected(LiquidateCall(u, inp), LiquidateAccounts(u, inp))

\* C10 witness: a liquidatable position after the keeper that filled it was
\* removed from the keeper set; the removed keeper's and the multisig's
\* liquidate calls and the removed keeper's execute call are refused with
\* UnauthorizedExecutor.
C10_Witness ==
    \E u \in Users : \E i \in OpenOrders(u) :
        /\ keeper_set.keepers = <<>>
        /\ user_market_position[u].long_qty > 0
        /\ ~Healthy(u)
        /\ \A inp \in LiquidateInputs :
               inp.leg = "Long" /\ inp.close_qty = 100 /\ inp.executor \in RebateHolders
                   => LiquidateCall(u, inp).err = "UnauthorizedExecutor"
        /\ \E inp \in ExecuteInputs :
               inp.executor = "k1" /\ ExecuteCall(u, i, inp).err = "UnauthorizedExecutor"

-----------------------------------------------------------------------------
(* Properties of the helper functions *)

Abs(x) == IF x >= 0 THEN x ELSE -x

\* C11: funding bound.  For every update_funding_index call with
\* elapsed = now - last_update_ts > 0 that succeeds, the funding index changes
\* by at most floor(funding_velocity_cap_bps_per_day * elapsed / 86400) *
\* FUNDING_SCALE in absolute value, whatever skew, oi_cap, interval_sec and
\* premium_clamp_bps are; last_update_ts becomes now.
C11_FundingBound ==
    (call.fn = "update_funding_index" /\ call.done) =>
        LET in == call.in
            elapsed == in.now_ - in.fs.last_update_ts
        IN (elapsed > 0 /\ IsOk(call.out)) =>
               /\ Abs(call.out.v.funding_index - in.fs.funding_index)
                      <= ((in.params.funding_velocity_cap_bps_per_day * elapsed)
                              \div 86400) * FUNDING_SCALE
               /\ call.out.v.last_update_ts = in.now_

\* C11 witness: a call whose clamped premium, accrued over the elapsed time,
\* exceeds the velocity bound, and which moved the index by exactly the
\* non-zero bound.
C11_Witness ==
    /\ call.fn = "update_funding_index" /\ call.done /\ IsOk(call.out)
    /\ LET in == call.in
           elapsed == in.now_ - in.fs.last_update_ts
           bound == ((in.params.funding_velocity_cap_bps_per_day * elapsed) \div 86400)
                        * FUNDING_SCALE
       IN /\ elapsed > 0
          /\ bound > 0
          /\ in.params.premium_clamp_bps * FUNDING_SCALE * elapsed
                 > bound * in.params.interval_sec
          /\ Abs(call.out.v.funding_index - in.fs.funding_index) = bound

\* The quantity and the entry notional of a leg of a position.
LegQty(position, leg) ==
    IF leg = "Long" THEN position.long_qty ELSE position.short_qty
LegEntry(position, leg) ==
    IF leg = "Long" THEN position.long_entry_notional ELSE position.short_entry_notional
OtherLeg(leg) == IF leg = "Long" THEN "Short" ELSE "Long"

\* C12: notional proportionality.  Every reduce_position with
\* 0 < close_qty <= leg_qty succeeds, removes
\* floor(entry_notional * close_qty / leg_qty) notional, lowers the leg's
\* quantity by close_qty and its entry notional by the removed amount, so that
\* new_entry_notional * old_qty - old_entry_notional * new_qty lies in
\* [0, old_qty); a full close leaves quantity and entry notional at 0; the
\* other leg is unchanged.
C12_NotionalProportional ==
    (call.fn = "reduce_position" /\ call.done) =>
        LET leg == call.in.leg
            old == call.in.position
            q == LegQty(old, leg)
            e == LegEntry(old, leg)
            c == call.in.close_qty
        IN (0 < c /\ c <= q) =>
               /\ IsOk(call.out)
               /\ LET new == call.out.v.position
                      r == call.out.v.reduced_notional
                  IN /\ r = (e * c) \div q
                     /\ LegQty(new, leg) = q - c
                     /\ LegEntry(new, leg) = e - r
                     /\ LegEntry(new, leg) * q - e * LegQty(new, leg) \in 0..(q - 1)
                     /\ c = q => LegQty(new, leg) = 0 /\ LegEntry(new, leg) = 0
                     /\ LegQty(new, OtherLeg(leg)) = LegQty(old, OtherLeg(leg))
                     /\ LegEntry(new, OtherLeg(leg)) = LegEntry(old, OtherLeg(leg))

\* C12 witness: a partial close whose proportional notional is not a whole
\* number, on a position whose other leg is open.
C12_Witness ==
    /\ call.fn = "reduce_position" /\ call.done /\ IsOk(call.out)
    /\ LET q == LegQty(call.in.position, call.in.leg)
           e == LegEntry(call.in.position, call.in.leg)
       IN /\ 0 < call.in.close_qty /\ call.in.close_qty < q
          /\ (e * call.in.close_qty) % q # 0
          /\ call.out.v.reduced_notional > 0
          /\ LegQty(call.in.position, OtherLeg(call.in.leg)) > 0

-----------------------------------------------------------------------------
(* Properties of execution *)

\* Nothing stops the engine from executing: the market is Active, neither
\* paused nor halted.
Trading ==
    /\ market.status = "Active"
    /\ ~global_config.global_pause
    /\ ~market_funding_state.halted

\* Open interest and skew as a fill of the order would leave them.
OiAfter(ord) == market_funding_state.open_interest + ord.margin
SkewAfter(ord) ==
    IF ord.side = "Buy" THEN market_funding_state.skew + ord.margin
    ELSE market_funding_state.skew - ord.margin

\* The first cap a fill of the order would break, "none" if it breaks none.
CapBroken(ord) ==
    IF ord.margin > market.risk_params.max_trade_notional THEN "MaxTradeNotionalExceeded"
    ELSE IF OiAfter(ord) > market.risk_params.oi_cap THEN "OiCapExceeded"
    ELSE IF Abs(SkewAfter(ord)) > market.risk_params.skew_cap THEN "SkewCapExceeded"
    ELSE "none"

\* C13: exposure caps at execution.  After every successful execution of a
\* non-reduce-only order the order's notional is at most max_trade_notional,
\* open interest at most oi_cap and |skew| at most skew_cap, for the
\* parameters current at the call; a call on an order that would break one of
\* them applies no fill, and the keeper's otherwise valid call fails with
\* MaxTradeNotionalExceeded, OiCapExceeded or SkewCapExceeded, whichever cap
\* is checked first.
C13_ExposureCaps ==
    \A u \in Users : \A i \in OpenOrders(u) : \A inp \in ExecuteInputs :
        LET ord == orders[u][i]
            acc == ExecuteAccounts(u, i, inp)
            r == ExecuteCall(u, i, inp)
            c == Commit(r, acc)
            rp == market.risk_params
        IN ~ord.reduce_only =>
               /\ c.order.status = "Executed" =>
                      /\ ord.margin <= rp.max_trade_notional
                      /\ c.market_funding_state.open_interest = OiAfter(ord)
                      /\ c.market_funding_state.open_interest <= rp.oi_cap
                      /\ c.market_funding_state.skew = SkewAfter(ord)
                      /\ Abs(c.market_funding_state.skew) <= rp.skew_cap
               /\ CapBroken(ord) # "none" =>
                      /\ r.err # "Ok"
                      /\ Untouched(c, acc)
               /\ (/\ CapBroken(ord) # "none"
                   /\ inp \in RiskExecuteInputs
                   /\ IsKeeper(inp.executor)
                   /\ Trading
                   /\ now <= ord.expires_at) => r.err = CapBroken(ord)

\* C13 witness: after a fill within the caps, the keeper's execution of a
\* second order is refused because open interest would pass oi_cap; in the
\* same state the parameters allow the notional of that order.
C13_Witness ==
    \E u \in Users : \E i \in OpenOrders(u) : \E inp \in RiskExecuteInputs :
        /\ user_market_position[u].long_qty > 0
        /\ market_funding_state.open_interest > 0
        /\ market_funding_state.open_interest <= market.risk_params.oi_cap
        /\ ExecuteCall(u, i, inp).err = "OiCapExceeded"

\* C14: margin and leverage at execution.  After every successful execution
\* of a non-reduce-only order the post-fee collateral balance and the new
\* total_notional satisfy collateral_balance >= floor(total_notional *
\* imr_bps / 10000) and total_notional <= collateral_balance * max_leverage;
\* so a trader left with collateral 0 holds no notional from the fill.
C14_MarginAndLeverage ==
    \A u \in Users : \A i \in OpenOrders(u) : \A inp \in ExecuteInputs :
        LET c == Commit(ExecuteCall(u, i, inp), ExecuteAccounts(u, i, inp))
            rp == market.risk_params
        IN (~orders[u][i].reduce_only /\ c.order.status = "Executed") =>
               /\ c.user_margin.collateral_balance >=
                      (c.user_margin.total_notional * rp.imr_bps) \div 10000
               /\ c.user_margin.total_notional <=
                      c.user_margin.collateral_balance * rp.max_leverage

\* C14 with the leverage bound as execute_order computes it: the collateral
\* balance counts as at least 1.
C14_LeverageFloorOne ==
    \A u \in Users : \A i \in OpenOrders(u) : \A inp \in ExecuteInputs :
        LET c == Commit(ExecuteCall(u, i, inp), ExecuteAccounts(u, i, inp))
            rp == market.risk_params
        IN (~orders[u][i].reduce_only /\ c.order.status = "Executed") =>
               /\ c.user_margin.collateral_balance >=
                      (c.user_margin.total_notional * rp.imr_bps) \div 10000
               /\ c.user_margin.total_notional <=
                      Max(c.user_margin.collateral_balance, 1) * rp.max_leverage

\* The leg a fill of the given side adds to.
LegOfSide(side) == IF side = "Buy" THEN "Long" ELSE "Short"

\* C15, placement: placing an order debits the trader's collateral by
\* floor(M * imr_bps / 10000) + floor(M * taker_fee_bps / 10000) for a
\* non-reduce-only order of margin M, and changes neither the notional nor
\* the position nor the market's exposure.
C15_PlaceStep ==
    \A u \in Users :
        Len(orders'[u]) = Len(orders[u]) + 1 =>
            LET ord == orders'[u][Len(orders'[u])]
                M == ord.margin
                rp == market.risk_params
            IN ~ord.reduce_only =>
                   /\ user_margin'[u].collateral_balance =
                          user_margin[u].collateral_balance
                          - ((M * rp.imr_bps) \div 10000
                             + (M * market.fee_params.taker_fee_bps) \div 10000)
                   /\ reserved'[u][Len(orders'[u])] =
                          user_margin[u].collateral_balance
                          - user_margin'[u].collateral_balance
                   /\ user_margin'[u].total_notional = user_margin[u].total_notional
                   /\ user_market_position'[u] = user_market_position[u]
                   /\ market_funding_state' = market_funding_state

\* C15, execution: with the parameters of the placement still current and
\* no funding to settle, a successful execution of the order gives the held
\* amount back and takes floor(M * taker_fee_bps / 10000), raises
\* total_notional and open interest by M, moves skew by +M for Buy and -M
\* for Sell, and adds floor(M * PRICE_SCALE / fill_price) quantity and M
\* entry notional to the leg of the order's side, leaving the other leg.
C15_ExecuteEffect ==
    \A u \in Users : \A i \in OpenOrders(u) : \A inp \in ExecuteInputs \cup RiskExecuteInputs :
        LET ord == orders[u][i]
            M == ord.margin
            acc == ExecuteAccounts(u, i, inp)
            c == Commit(ExecuteCall(u, i, inp), acc)
            pos == user_market_position[u]
            leg == LegOfSide(ord.side)
        IN (/\ ~ord.reduce_only
            /\ c.order.status = "Executed"
            /\ reserved[u][i] = Reservation(ord)
            /\ FundingDebit(u) = 0) =>
               /\ c.user_margin.collateral_balance =
                      user_margin[u].collateral_balance + reserved[u][i]
                      - (M * market.fee_params.taker_fee_bps) \div 10000
               /\ c.user_margin.total_notional = user_margin[u].total_notional + M
               /\ c.market_funding_state.open_interest =
                      market_funding_state.open_interest + M
               /\ c.market_funding_state.skew =
                      market_funding_state.skew + (IF ord.side = "Buy" THEN M ELSE -M)
               /\ LegQty(c.user_market_position, leg) =
                      LegQty(pos, leg) + (M * PRICE_SCALE) \div inp.fill_price
               /\ LegEntry(c.user_market_position, leg) = LegEntry(pos, leg) + M
               /\ LegQty(c.user_market_position, OtherLeg(leg)) = LegQty(pos, OtherLeg(leg))
               /\ LegEntry(c.user_market_position, OtherLeg(leg)) =
                      LegEntry(pos, OtherLeg(leg))

\* C15: net effect of placing and executing an order.  For a
\* non-reduce-only order of margin M placed by a trader with collateral C,
\* with unchanged market parameters and no funding accrual in between,
\* placement leaves collateral C - (floor(M*imr_bps/10000) +
\* floor(M*taker_fee_bps/10000)) and a successful execution leaves
\* C - floor(M*taker_fee_bps/10000), raises total_notional and open
\* interest by exactly M, moves skew by +M for Buy or -M for Sell, and adds
\* floor(M*PRICE_SCALE/fill_price) quantity and M entry notional to the leg
\* matching the side.
C15_PlaceThenExecute == []C15_ExecuteEffect /\ [][C15_PlaceStep]_vars

\* C15 witness: a trader holding a long position has an open sell order
\* whose execution at a price that does not divide M * PRICE_SCALE succeeds.
C15_Witness ==
    \E u \in Users : \E i \in OpenOrders(u) : \E inp \in RiskExecuteInputs :
        LET ord == orders[u][i] IN
        /\ ~ord.reduce_only
        /\ ord.side = "Sell"
        /\ user_market_position[u].long_qty > 0
        /\ reserved[u][i] = Reservation(ord)
        /\ reserved[u][i] > 0
        /\ (ord.margin * PRICE_SCALE) % inp.fill_price # 0
        /\ ExecuteCall(u, i, inp).err = "Ok"

\* The publish time of the observation a call supplies: the feed record's,
\* or the fallback argument when the price-update account is the system
\* program.
ObservedPublishTime(o) ==
    IF o.price_update.key = "system" THEN o.publish_time
    ELSE o.price_update.price_message.publish_time

\* The call would fill the order if it came with a fresh fallback observation.
FillsWhenFresh(u, i, inp) ==
    LET r == ExecuteCall(u, i, [inp EXCEPT !.oracle = FreshOracle])
    IN r.err = "Ok" /\ r.acc.order.status = "Executed"

\* The freshness of the observations in the set: no fill uses one published
\* after now or more than max_oracle_staleness_sec before now; a call with
\* such an observation that would fill the order with a fresh one fails with
\* InvalidOracle or StaleOracle, and with InvalidOracle when the fallback
\* price is 0.
FreshnessOver(oracle_inputs) ==
    \A u \in Users : \A i \in OpenOrders(u) : \A inp \in ExecuteInputs :
        LET acc == ExecuteAccounts(u, i, inp)
            r == ExecuteCall(u, i, inp)
            c == Commit(r, acc)
            t == ObservedPublishTime(inp.oracle)
            fallback == inp.oracle.price_update.key = "system"
            full == fallback \/ inp.oracle.price_update.wire = "full"
            priced == fallback => inp.oracle.price > 0
            staleness == market.pricing_params.max_oracle_staleness_sec
        IN inp.oracle \in oracle_inputs =>
               /\ c.order.status = "Executed" => (t <= now /\ now - t <= staleness)
               /\ (t > now \/ now - t > staleness) =>
                      /\ c.user_market_position = acc.user_market_position
                      /\ c.market_funding_state = acc.market_funding_state
                      /\ c.user_margin.total_notional = acc.user_margin.total_notional
               /\ (FillsWhenFresh(u, i, inp) /\ full /\ priced /\ t > now)
                      => r.err = "InvalidOracle"
               /\ (FillsWhenFresh(u, i, inp) /\ full /\ priced /\ now - t > staleness)
                      => r.err = "StaleOracle"
               /\ (FillsWhenFresh(u, i, inp) /\ fallback /\ inp.oracle.price = 0)
                      => r.err = "InvalidOracle"

\* C16: oracle freshness.  No execute_order applies a fill using a price
\* observation whose publish time is later than now (it fails with
\* InvalidOracle) or older than max_oracle_staleness_sec at execution time
\* (it fails with StaleOracle), for a signed feed record and for the
\* caller-supplied fallback triple, for every publish time the caller can
\* supply; the fallback also fails with InvalidOracle when its price is 0.
C16_OracleFreshness == FreshnessOver(OracleInputs \cup {FreshOracle})

\* C16 for the observations execute_order does not re-date: feed records and
\* fallback triples with a publish time above 0.
C16_FreshnessOfDatedObservations ==
    FreshnessOver({ o \in OracleInputs \cup {FreshOracle} :
                      o.price_update.key = "system" => o.publish_time > 0 })

\* The case C16_OracleFreshness fails on: the keeper's call with a fallback
\* publish time of 0, more than max_oracle_staleness_sec after time 0, fills
\* an order.
C16_StaleFallbackFills ==
    \E u \in Users : \E i \in OpenOrders(u) : \E inp \in ExecuteInputs :
        /\ inp.oracle.price_update.key = "system"
        /\ inp.oracle.publish_time = 0
        /\ now > market.pricing_params.max_oracle_staleness_sec
        /\ ExecuteCall(u, i, inp).err = "Ok"
        /\ ExecuteCall(u, i, inp).acc.order.status = "Executed"

-----------------------------------------------------------------------------
(* Properties of liquidation *)

\* A liquidate call on trader u that passes every check before the position
\* is reduced: the keeper's, with the keeper's rebate account, on an Active
\* market that is not halted, against an account below maintenance margin.
ReachesReduction(u, inp) ==
    /\ inp.close_qty > 0
    /\ market.status = "Active"
    /\ ~market_funding_state.halted
    /\ inp.rebate = inp.executor
    /\ IsKeeper(inp.executor)
    /\ ~Healthy(u)

\* The notional a close of close_qty takes from the leg.
NotionalOfClose(position, leg, close_qty) ==
    (LegEntry(position, leg) * close_qty) \div LegQty(position, leg)

\* C17: the close quantity of a liquidation.  A liquidate call whose
\* close_qty exceeds the chosen leg's quantity fails with InvalidCloseQty, a
\* call with close_qty = 0 or one that would remove zero notional fails with
\* InvalidAmount, and in each case the position, the margin account and the
\* funding state stay as they were; a successful liquidation removes exactly
\* close_qty, never more than the leg holds.  The error codes are those of a
\* call that passes the checks made before the position is reduced.
C17_CloseQtyChecked ==
    \A u \in Users : \A inp \in LiquidateInputs \cup CheapLiquidateInputs :
        LET acc == LiquidateAccounts(u, inp)
            r == LiquidateCall(u, inp)
            c == Commit(r, acc)
            pos == user_market_position[u]
            qty == LegQty(pos, inp.leg)
            exceeds == inp.close_qty > qty
            nothing == /\ inp.close_qty > 0
                       /\ ~exceeds
                       /\ NotionalOfClose(pos, inp.leg, inp.close_qty) = 0
        IN /\ inp.close_qty = 0 => r.err = "InvalidAmount"
           /\ (ReachesReduction(u, inp) /\ exceeds) => r.err = "InvalidCloseQty"
           /\ (ReachesReduction(u, inp) /\ nothing) => r.err = "InvalidAmount"
           /\ (inp.close_qty = 0 \/ exceeds \/ nothing) =>
                  /\ r.err # "Ok"
                  /\ Untouched(c, acc)
           /\ r.err = "Ok" =>
                  /\ inp.close_qty <= qty
                  /\ LegQty(c.user_market_position, inp.leg) = qty - inp.close_qty
                  /\ LegQty(c.user_market_position, OtherLeg(inp.leg)) =
                         LegQty(pos, OtherLeg(inp.leg))

\* C17 witness: an account below maintenance margin holds a long leg; the
\* keeper's call for more than the leg fails with InvalidCloseQty, the call
\* for one unit, worth no notional, fails with InvalidAmount, and the call
\* for a part of the leg succeeds.
C17_Witness ==
    \E u \in Users : \E over, one, part \in CheapLiquidateInputs :
        /\ user_market_position[u].long_qty > 0
        /\ over.close_qty > LegQty(user_market_position[u], over.leg)
        /\ LiquidateCall(u, over).err = "InvalidCloseQty"
        /\ one.close_qty = 1
        /\ LiquidateCall(u, one).err = "InvalidAmount"
        /\ LiquidateCall(u, part).err = "Ok"

-----------------------------------------------------------------------------
(* Properties of the transfers to the pool *)

\* What a call added to a vault in memory.
VaultDelta(r, acc, v) == r.acc.vaults[v] - acc.vaults[v]

\* The call issued a notification: the pool's counters or the keeper's
\* rebate record changed in memory.
Notified(r, acc) == r.acc.pool # acc.pool \/ r.acc.keeper_rebate # acc.keeper_rebate

\* The vaults hold the split of the fee: the collateral vault gave the fee,
\* and the liquidity, insurance and protocol-fee vaults received their parts.
FeeTransferred(r, acc, fee) ==
    LET lp_fee == (fee * acc.pool.lp_fee_bps) \div 10000
        insurance_fee == (fee * acc.pool.insurance_fee_bps) \div 10000
    IN /\ VaultDelta(r, acc, "collateral_vault") = -fee
       /\ VaultDelta(r, acc, "lp_liquidity_vault") = lp_fee
       /\ VaultDelta(r, acc, "lp_insurance_vault") = insurance_fee
       /\ VaultDelta(r, acc, "lp_protocol_fee_vault") = fee - lp_fee - insurance_fee
       /\ VaultDelta(r, acc, "lp_liquidity_vault") + VaultDelta(r, acc, "lp_insurance_vault")
              + VaultDelta(r, acc, "lp_protocol_fee_vault") = fee

\* The vaults hold the split of the penalty: the collateral vault gave the
\* penalty, the protocol-fee vault received the keeper's tenth and the
\* insurance vault the rest.
PenaltyTransferred(r, acc, penalty) ==
    LET keeper_portion == (penalty * KEEPER_PENALTY_BPS) \div 10000 IN
    /\ VaultDelta(r, acc, "collateral_vault") = -penalty
    /\ VaultDelta(r, acc, "lp_protocol_fee_vault") = keeper_portion
    /\ VaultDelta(r, acc, "lp_insurance_vault") = penalty - keeper_portion
    /\ VaultDelta(r, acc, "lp_liquidity_vault") = 0

\* The errors of the pool when a vault does not hold what a notification
\* reports.
PoolVaultErrors == {"InsufficientProtocolFeeVault", "InsufficientInsuranceVault"}

\* C18, execution: a successful execute_order has moved the fee, the
\* taker fee on the order's notional that the trader was debited and the
\* pool recorded, from the collateral vault to the three pool vaults (the
\* trader's balance is compared when no funding is due and the amount held
\* is the reservation under the current parameters); the
\* pool never finds the reported amounts missing from its vaults; and a call
\* that issued the notification, whatever it returned, had made the
\* transfers.
C18_ExecuteTransfers ==
    \A u \in Users : \A i \in OpenOrders(u) : \A inp \in ExecuteInputs :
        LET ord == orders[u][i]
            acc == ExecuteAccounts(u, i, inp)
            r == ExecuteCall(u, i, inp)
            fee == (ord.margin * market.fee_params.taker_fee_bps) \div 10000
            reported == r.acc.pool.total_trading_fees - acc.pool.total_trading_fees
        IN /\ (r.err = "Ok" /\ r.acc.order.status = "Executed") =>
                  /\ reported = fee
                  /\ FeeTransferred(r, acc, fee)
                  /\ (FundingDebit(u) = 0 /\ reserved[u][i] = Reservation(ord)) =>
                         r.acc.user_margin.collateral_balance =
                             user_margin[u].collateral_balance + reserved[u][i] - fee
           /\ r.err \notin PoolVaultErrors
           /\ Notified(r, acc) => FeeTransferred(r, acc, reported)

\* C18, liquidation: a successful liquidate has moved the penalty on the
\* removed notional from the collateral vault to the insurance and
\* protocol-fee vaults, and the pool credited the keeper with the tenth of
\* that penalty; the pool never finds the reported amounts missing; and a
\* call that issued the notification had made the transfers.
C18_LiquidateTransfers ==
    \A u \in Users : \A inp \in LiquidateInputs :
        LET acc == LiquidateAccounts(u, inp)
            r == LiquidateCall(u, inp)
            penalty == PenaltyOf(r, acc)
        IN /\ r.err = "Ok" =>
                  /\ PenaltyTransferred(r, acc, penalty)
                  /\ r.acc.keeper_rebate.amount - acc.keeper_rebate.amount =
                         (penalty * KEEPER_PENALTY_BPS) \div 10000
           /\ r.err \notin PoolVaultErrors
           /\ Notified(r, acc) => PenaltyTransferred(r, acc, penalty)

\* C18: transfer before notification.  In every successful execute_order
\* with fee > 0 the transfers from the collateral vault to the pool's
\* liquidity, insurance and protocol-fee vaults happen before the trade-fill
\* notification and sum exactly to the fee debited from the trader and
\* reported in the notification; in every successful liquidate the penalty
\* transfers happen before the liquidation notification and sum exactly to
\* the reported penalty; no notification is issued in a call in which the
\* transfers were not made.
C18_TransferBeforeNotification == C18_ExecuteTransfers /\ C18_LiquidateTransfers

\* C18 witness: an open order whose execution succeeds and credits the
\* protocol-fee vault, in a state where the keeper's liquidation of the same
\* trader succeeds and is notified to the pool.
C18_Witness ==
    \E u \in Users : \E i \in OpenOrders(u) : \E inp \in ExecuteInputs :
        \E linp \in LiquidateInputs :
            LET acc == ExecuteAccounts(u, i, inp)
                r == ExecuteCall(u, i, inp)
                l == LiquidateCall(u, linp)
            IN /\ r.err = "Ok"
               /\ r.acc.order.status = "Executed"
               /\ VaultDelta(r, acc, "collateral_vault") < 0
               /\ VaultDelta(r, acc, "lp_protocol_fee_vault") > 0
               /\ Notified(r, acc)
               /\ l.err = "Ok"
               /\ VaultDelta(l, LiquidateAccounts(u, linp), "collateral_vault") < 0
               /\ Notified(l, LiquidateAccounts(u, linp))

-----------------------------------------------------------------------------
(* Properties of the arithmetic *)

\* floor(value * bps / 10000), without a width.
ExactBps(value, bps) == (value * bps) \div 10000

\* A finished call of mul_bps_u64.
MulBpsDone == call.fn = "mul_bps_u64" /\ call.done

\* C19: mul_bps_u64(value, bps) returns floor(value * bps / 10000) for
\* every u64 value and bps, and when the exact result does not fit in a u64
\* it fails with MathOverflow instead of returning a wrapped or saturated
\* number.
C19_MulBpsFloorOrOverflow ==
    MulBpsDone =>
        LET exact == ExactBps(call.in.value, call.in.bps) IN
        IF exact < U64_MODULUS THEN call.out = Ok(exact)
        ELSE call.out = Err("MathOverflow")

\* C19 where the exact result fits: the function returns it, so bps = 10000
\* returns the value.
C19_MulBpsFloorWhenFits ==
    MulBpsDone =>
        LET exact == ExactBps(call.in.value, call.in.bps) IN
        /\ exact < U64_MODULUS => call.out = Ok(exact)
        /\ call.in.bps = 10000 => call.out = Ok(call.in.value)

\* What mul_bps_u64 returns where the exact result does not fit: its low bits.
C19_MulBpsWraps ==
    MulBpsDone =>
        LET exact == ExactBps(call.in.value, call.in.bps) IN
        exact >= U64_MODULUS => call.out = Ok(exact % U64_MODULUS)

\* The case C19_MulBpsFloorOrOverflow fails on: a finished call whose exact
\* result does not fit.
C19_ResultTooWide ==
    MulBpsDone /\ ExactBps(call.in.value, call.in.bps) >= U64_MODULUS

-----------------------------------------------------------------------------
(* Properties of the order of the checks *)

\* The result of reading and validating the oracle input of a call.
OracleCheck(inp) ==
    LET o == read_oracle_price_update(market, inp.oracle.price_update, now,
                                      inp.oracle.price, inp.oracle.conf,
                                      inp.oracle.publish_time)
    IN IF ~IsOk(o) THEN o.err
       ELSE validate_oracle(market, now, inp.fill_price, o.v.price, o.v.conf,
                            o.v.publish_time).err

\* The result the first violated check gives, with the market status checked
\* before the global pause: "Expired" for an order past its TTL, "none" when
\* no check up to the oracle's is violated.
FirstViolatedStatusFirst(ord, inp) ==
    IF market.status # "Active" THEN "MarketNotActive"
    ELSE IF global_config.global_pause THEN "GlobalPaused"
    ELSE IF market_funding_state.halted THEN "MarketHaltedLocal"
    ELSE IF now > ord.expires_at THEN "Expired"
    ELSE IF OracleCheck(inp) # "Ok" THEN OracleCheck(inp)
    ELSE "none"

\* The same with the global pause checked before the market status.
FirstViolatedPauseFirst(ord, inp) ==
    IF global_config.global_pause THEN "GlobalPaused"
    ELSE IF market.status # "Active" THEN "MarketNotActive"
    ELSE IF market_funding_state.halted THEN "MarketHaltedLocal"
    ELSE IF now > ord.expires_at THEN "Expired"
    ELSE IF OracleCheck(inp) # "Ok" THEN OracleCheck(inp)
    ELSE "none"

\* The call returned what the first violated check gives.
ReturnsFirst(r, first) ==
    /\ first = "Expired" => (r.err = "Ok" /\ r.acc.order.status = "Expired")
    /\ first \notin {"Expired", "none"} => r.err = first

\* The calls whose signer and arguments pass the checks made before the
\* market's: an authorized executor with its own rebate account and a
\* positive fill price.
PrecedenceInputs ==
    { inp \in ExecuteInputs :
        IsExecutor(inp.executor) /\ inp.rebate = inp.executor /\ inp.fill_price > 0 }

\* C20: check precedence in execute_order.  When a call violates several
\* execution checks at once, the error returned is that of the earliest
\* violated check in the order market active, then global pause / local
\* halt, then order open and market match, then TTL (auto-expire), then
\* oracle validity, then the caps and margin checks; a paused engine on a
\* non-Active market reports MarketNotActive.
C20_CheckPrecedence ==
    \A u \in Users : \A i \in OpenOrders(u) : \A inp \in PrecedenceInputs :
        ReturnsFirst(ExecuteCall(u, i, inp), FirstViolatedStatusFirst(orders[u][i], inp))

\* C20 in the order execute_order makes the checks: global pause, market
\* active, local halt, TTL, oracle validity.
C20_PrecedencePauseFirst ==
    \A u \in Users : \A i \in OpenOrders(u) : \A inp \in PrecedenceInputs :
        ReturnsFirst(ExecuteCall(u, i, inp), FirstViolatedPauseFirst(orders[u][i], inp))

\* The case C20_CheckPrecedence fails on: a keeper's call on an open order
\* while the engine is paused and the market is not Active returns
\* GlobalPaused.
C20_PausedOnInactiveMarket ==
    \E u \in Users : \E i \in OpenOrders(u) : \E inp \in PrecedenceInputs :
        /\ global_config.global_pause
        /\ market.status # "Active"
        /\ ExecuteCall(u, i, inp).err = "GlobalPaused"

-----------------------------------------------------------------------------
(* Properties of the price checks *)

\* The observation a call's oracle input gives, as execute_order reads it.
Observed(inp) ==
    read_oracle_price_update(market, inp.oracle.price_update, now, inp.oracle.price,
                             inp.oracle.conf, inp.oracle.publish_time)

\* The call passes every check made before the oracle's confidence is
\* compared: an authorized executor with its own rebate account and a
\* positive fill price, on a tradable market, an order within its TTL, and
\* an observation that is read and is fresh.
ReachesPriceChecks(ord, inp) ==
    /\ IsExecutor(inp.executor)
    /\ inp.rebate = inp.executor
    /\ inp.fill_price > 0
    /\ Trading
    /\ now <= ord.expires_at
    /\ IsOk(Observed(inp))
    /\ Observed(inp).v.price > 0
    /\ Observed(inp).v.publish_time <= now
    /\ now - Observed(inp).v.publish_time <= market.pricing_params.max_oracle_staleness_sec

ConfBps(inp) == (Observed(inp).v.conf * 10000) \div Observed(inp).v.price
DeviationBps(inp) ==
    (Abs(inp.fill_price - Observed(inp).v.price) * 10000) \div Observed(inp).v.price

\* The execute_order calls the price properties range over.
AllExecuteInputs == ExecuteInputs \cup RiskExecuteInputs \cup PriceExecuteInputs

ImpactBps(ord) ==
    LET skew_ratio_bps == IF OiAfter(ord) = 0 THEN 0
                          ELSE (Abs(SkewAfter(ord)) * 10000) \div OiAfter(ord)
    IN market.pricing_params.base_spread_bps
       + (market.pricing_params.skew_coeff_bps * skew_ratio_bps) \div 10000

\* The fill price respects the impact price of the order's side.
WithinImpact(ord, inp) ==
    LET price == Observed(inp).v.price IN
    /\ ImpactBps(ord) < 10000
    /\ ord.side = "Buy" => inp.fill_price >= (price * (10000 + ImpactBps(ord))) \div 10000
    /\ ord.side = "Sell" => inp.fill_price <= (price * (10000 - ImpactBps(ord))) \div 10000

\* The fill price respects the order's price.
WithinLimit(ord, inp) ==
    /\ ord.side = "Buy" => inp.fill_price <= ord.price
    /\ ord.side = "Sell" => inp.fill_price >= ord.price

\* The call passes the confidence and deviation bounds.
WithinGate(inp) ==
    /\ ConfBps(inp) <= market.pricing_params.max_conf_bps
    /\ DeviationBps(inp) <= market.pricing_params.max_fill_deviation_bps

AllOrderInputs == OrderInputs \cup RiskOrderInputs \cup PriceOrderInputs

\* A place_order call that passes the checks made before the price's.
ReachesPlacePrice(o) ==
    /\ o.margin > 0
    /\ o.ttl_secs > 0
    /\ o.ttl_secs <= engine_config.max_ttl_secs
    /\ ~global_config.global_pause
    /\ market.status = "Active"

\* C23: limit-price compliance.  Every executed Buy order has fill_price <=
\* the order's price and every executed Sell order has fill_price >= the
\* order's price, for Limit and Market orders alike and for reduce-only
\* orders too; place_order rejects price = 0 with InvalidLimitPrice, so no
\* order has price 0; and a fill that does not comply fails with
\* LimitPriceViolation and commits nothing.
C23_LimitPrice ==
    /\ \A u \in Users : \A i \in OpenOrders(u) : \A inp \in AllExecuteInputs :
           LET ord == orders[u][i]
               acc == ExecuteAccounts(u, i, inp)
               r == ExecuteCall(u, i, inp)
               c == Commit(r, acc)
           IN /\ c.order.status = "Executed" => WithinLimit(ord, inp)
              /\ (/\ ReachesPriceChecks(ord, inp)
                  /\ WithinGate(inp)
                  /\ ord.margin <= market.risk_params.max_trade_notional
                  /\ (ord.margin * PRICE_SCALE) \div inp.fill_price > 0
                  /\ ~WithinLimit(ord, inp)) =>
                     /\ r.err = "LimitPriceViolation"
                     /\ Untouched(c, acc)
    /\ \A u \in Users : \A o \in AllOrderInputs :
           o.price = 0 =>
               /\ PlaceCall(u, o).err # "Ok"
               /\ ReachesPlacePrice(o) => PlaceCall(u, o).err = "InvalidLimitPrice"
    /\ \A u \in Users : \A i \in 1..Len(orders[u]) : orders[u][i].price > 0

\* C23 witness: a reduce-only Market sell order on a long position fills at
\* its price and fails with LimitPriceViolation below it, in a state where
\* placing an order with price 0 fails with InvalidLimitPrice.
C23_Witness ==
    \E u \in Users : \E i \in OpenOrders(u) : \E at, below \in PriceExecuteInputs :
        /\ orders[u][i].order_type = "Market"
        /\ orders[u][i].reduce_only
        /\ orders[u][i].side = "Sell"
        /\ at.fill_price = orders[u][i].price
        /\ ExecuteCall(u, i, at).err = "Ok"
        /\ ExecuteCall(u, i, at).acc.order.status = "Executed"
        /\ below.fill_price < orders[u][i].price
        /\ ExecuteCall(u, i, below).err = "LimitPriceViolation"
        /\ \E o \in PriceOrderInputs :
               o.price = 0 /\ PlaceCall(u, o).err = "InvalidLimitPrice"

-----------------------------------------------------------------------------
(* Properties of funding settlement *)

\* A finished call of settle_user_funding.
SettleDone == call.fn = "settle_user_funding" /\ call.done

\* What the shorts of the position receive less what its longs pay, for the
\* index change since each leg was last settled.
NetFunding(position, index) ==
    TruncDiv(position.short_qty * (index - position.last_funding_index_short), FUNDING_SCALE)
    - TruncDiv(position.long_qty * (index - position.last_funding_index_long), FUNDING_SCALE)

-----------------------------------------------------------------------------
(* Properties of the last-settled indices *)

\* Both legs of the position are settled up to the index.
SettledAt(position, index) ==
    /\ position.last_funding_index_long = index
    /\ position.last_funding_index_short = index

\* The call changed a leg of the position or the funding state, so it went
\* through the settlement.
PastSettlement(r, acc) ==
    /\ r.err = "Ok"
    /\ \/ r.acc.user_market_position # acc.user_market_position
       \/ r.acc.market_funding_state # acc.market_funding_state

\* C25: no retroactive funding.  Settling trader u at the index of this
\* moment leaves both last-settled indices at that index, the one of a leg
\* without quantity too, and settling again at the same index changes
\* nothing.  A successful execute_order or liquidate that went through the
\* settlement leaves both last-settled indices at the funding index it
\* stored, so the position it leaves owes no funding at that index: a leg
\* it opened is charged from that index on.
C25_NoRetroactiveFunding ==
    \A u \in Users :
        /\ IsOk(FundingNow) =>
               LET fs == FundingNow.v
                   once == settle_user_funding(user_market_position[u], fs, user_margin[u])
                   twice == settle_user_funding(once.v.position, fs, once.v.margin)
               IN /\ IsOk(once)
                  /\ SettledAt(once.v.position, fs.funding_index)
                  /\ twice = once
        /\ \A i \in OpenOrders(u) : \A inp \in ExecuteInputs :
               LET acc == ExecuteAccounts(u, i, inp)
                   r == ExecuteCall(u, i, inp)
               IN PastSettlement(r, acc) =>
                      /\ SettledAt(r.acc.user_market_position,
                                   r.acc.market_funding_state.funding_index)
                      /\ NetFunding(r.acc.user_market_position,
                                    r.acc.market_funding_state.funding_index) = 0
                      /\ IsOk(FundingNow)
                      /\ r.acc.market_funding_state.funding_index = FundingNow.v.funding_index
        /\ \A inp \in LiquidateInputs :
               LET acc == LiquidateAccounts(u, inp)
                   r == LiquidateCall(u, inp)
               IN PastSettlement(r, acc) =>
                      /\ SettledAt(r.acc.user_market_position,
                                   r.acc.market_funding_state.funding_index)
                      /\ NetFunding(r.acc.user_market_position,
                                    r.acc.market_funding_state.funding_index) = 0

\* A fill on a position whose long leg is open and whose short leg has no
\* quantity, after the funding index has moved away from the index the legs
\* were last settled at: the fill charges the long leg for the movement and
\* leaves the last-settled index of the empty short leg at the moved index.
C25_Witness ==
    \E u \in Users : \E i \in OpenOrders(u) : \E inp \in ExecuteInputs :
        LET acc == ExecuteAccounts(u, i, inp)
            r == ExecuteCall(u, i, inp)
        IN /\ r.err = "Ok"
           /\ r.acc.order.status = "Executed"
           /\ acc.user_market_position.long_qty > 0
           /\ acc.user_market_position.short_qty = 0
           /\ r.acc.user_market_position.short_qty = 0
           /\ r.acc.market_funding_state.funding_index
                  # acc.user_market_position.last_funding_index_short
           /\ NetFunding(acc.user_market_position,
                         r.acc.market_funding_state.funding_index) < 0
           /\ r.acc.user_market_position.last_funding_index_short
                  = r.acc.market_funding_state.funding_index

\* C25 on the function alone: whatever the position, the index and the
\* balance, the settlement leaves both last-settled indices at the index,
\* and a second settlement at that index returns what the first returned.
C25_SettleAdvancesBothLegs ==
    SettleDone =>
        /\ SettledAt(call.out.v.position, call.in.fs.funding_index)
        /\ settle_user_funding(call.out.v.position, call.in.fs, call.out.v.margin) = call.out
        /\ NetFunding(call.out.v.position, call.in.fs.funding_index) = 0

-----------------------------------------------------------------------------
(* Properties of the liquidation penalty *)

AllLiquidateInputs == LiquidateInputs \cup CheapLiquidateInputs

\* The notional a liquidation removed from the trader's position.
RemovedNotional(r, acc) ==
    acc.user_margin.total_notional - r.acc.user_margin.total_notional

\* C26: penalty split.  A successful liquidation that removed notional n
\* has penalty = floor(n * liquidation_penalty_bps / 10000), of which
\* keeper_portion = floor(penalty * 1000 / 10000) reaches the protocol-fee
\* vault and insurance_portion = penalty - keeper_portion the insurance
\* vault; the two parts add up to the penalty, the keeper's part is not the
\* larger one, and the keeper's rebate record and the pool's pending
\* rebates grow by exactly keeper_portion.
C26_PenaltySplit ==
    \A u \in Users : \A inp \in AllLiquidateInputs :
        LET acc == LiquidateAccounts(u, inp)
            r == LiquidateCall(u, inp)
            n == RemovedNotional(r, acc)
            penalty == (n * engine_config.liquidation_penalty_bps) \div 10000
            keeper_portion == (penalty * 1000) \div 10000
            insurance_portion == penalty - keeper_portion
        IN r.err = "Ok" =>
               /\ n > 0
               /\ VaultDelta(r, acc, "lp_protocol_fee_vault") = keeper_portion
               /\ VaultDelta(r, acc, "lp_insurance_vault") = insurance_portion
               /\ VaultDelta(r, acc, "lp_protocol_fee_vault")
                      + VaultDelta(r, acc, "lp_insurance_vault") = penalty
               /\ keeper_portion <= insurance_portion
               /\ r.acc.keeper_rebate.amount - acc.keeper_rebate.amount = keeper_portion
               /\ r.acc.pool.pending_keeper_rebates - acc.pool.pending_keeper_rebates
                      = keeper_portion
               /\ r.acc.keeper_rebate.keeper = inp.executor

\* A liquidation whose penalty is not a multiple of ten, so that the
\* keeper's part is rounded down and the insurance part takes the rest.
C26_Witness ==
    \E u \in Users : \E inp \in AllLiquidateInputs :
        LET acc == LiquidateAccounts(u, inp)
            r == LiquidateCall(u, inp)
            penalty == (RemovedNotional(r, acc) * engine_config.liquidation_penalty_bps)
                          \div 10000
        IN /\ r.err = "Ok"
           /\ penalty % 10 # 0
           /\ r.acc.keeper_rebate.amount - acc.keeper_rebate.amount = penalty \div 10
           /\ r.acc.keeper_rebate.amount > acc.keeper_rebate.amount

-----------------------------------------------------------------------------
(* Properties of the bad debt of a liquidation *)

\* The part of the penalty of a liquidation that the trader's collateral,
\* funding settled, does not cover.
BadDebtOf(u, r, acc) ==
    IF SettledMargin(u).collateral_balance >= PenaltyOf(r, acc) THEN 0
    ELSE PenaltyOf(r, acc) - SettledMargin(u).collateral_balance

\* The collateral of the trader after a successful liquidation is the
\* settled collateral less the penalty, with bad debt 0, when the collateral
\* covers the penalty, and 0 otherwise, with the rest of the penalty as bad
\* debt: collateral before + bad debt = collateral after + penalty.
C27_CollateralAndBadDebt ==
    \A u \in Users : \A inp \in AllLiquidateInputs :
        LET acc == LiquidateAccounts(u, inp)
            r == LiquidateCall(u, inp)
            before == SettledMargin(u).collateral_balance
            after == r.acc.user_margin.collateral_balance
            penalty == PenaltyOf(r, acc)
        IN r.err = "Ok" =>
               /\ before >= penalty => after = before - penalty /\ BadDebtOf(u, r, acc) = 0
               /\ before < penalty => after = 0 /\ BadDebtOf(u, r, acc) = penalty - before
               /\ before + BadDebtOf(u, r, acc) = after + penalty

\* C27: bad-debt accounting.  In a successful liquidation the trader's
\* collateral and the bad debt are as C27_CollateralAndBadDebt states, and
\* the tokens that leave the collateral vault for the penalty are no more
\* than the amount debited from the trader's collateral balance.
C27_BadDebtAccounting ==
    /\ C27_CollateralAndBadDebt
    /\ \A u \in Users : \A inp \in AllLiquidateInputs :
           LET acc == LiquidateAccounts(u, inp)
               r == LiquidateCall(u, inp)
           IN r.err = "Ok" =>
                  - VaultDelta(r, acc, "collateral_vault")
                      <= SettledMargin(u).collateral_balance
                             - r.acc.user_margin.collateral_balance

\* A successful liquidation with bad debt takes the whole penalty out of
\* the collateral vault.
C27_BadDebtPaidFromCollateralVault ==
    \A u \in Users : \A inp \in AllLiquidateInputs :
        LET acc == LiquidateAccounts(u, inp)
            r == LiquidateCall(u, inp)
        IN r.err = "Ok" => - VaultDelta(r, acc, "collateral_vault") = PenaltyOf(r, acc)

-----------------------------------------------------------------------------
(* Properties of reduce-only orders *)

\* The leg a reduce-only order closes, and the units it closes at the fill
\* price.
CloseLeg(ord) == IF ord.side = "Buy" THEN "Short" ELSE "Long"
CloseUnits(ord, inp) == (ord.margin * PRICE_SCALE) \div inp.fill_price

\* The call passes every check made before the position is reduced.
ReachesClose(ord, inp) ==
    /\ ReachesPriceChecks(ord, inp)
    /\ IsOk(validate_oracle(market, now, inp.fill_price, Observed(inp).v.price,
                            Observed(inp).v.conf, Observed(inp).v.publish_time))
    /\ ord.margin <= market.risk_params.max_trade_notional
    /\ CloseUnits(ord, inp) > 0
    /\ IsOk(validate_order_price(ord.side, ord.order_type, ord.price, inp.fill_price))

\* The checks of an opening fill.
OpeningChecks ==
    {"OiCapExceeded", "SkewCapExceeded", "ImpactPriceViolation",
     "MarginRequirementViolation", "LeverageExceeded"}

\* C28: reduce-only semantics.  A reduce-only order holds no reservation.
\* Its successful execution closes floor(margin * PRICE_SCALE / fill_price)
\* units of the leg opposite to its side, which the leg has, and leaves the
\* other leg alone; total_notional and open interest fall by the entry
\* notional removed and skew moves by it, down for a closed Long and up for
\* a closed Short; the settled collateral falls by
\* floor(margin * taker_fee_bps / 10000); no leg quantity, open interest or
\* total_notional grows.  A call that reaches the reduction with more units
\* than the leg has fails with InvalidCloseQty, and no call fails on a check
\* of an opening fill.
C28_ReduceOnly ==
    \A u \in Users : \A i \in OpenOrders(u) : \A inp \in AllExecuteInputs :
        LET ord == orders[u][i]
            acc == ExecuteAccounts(u, i, inp)
            r == ExecuteCall(u, i, inp)
            leg == CloseLeg(ord)
            units == CloseUnits(ord, inp)
            old == acc.user_market_position
            new == r.acc.user_market_position
            removed == LegEntry(old, leg) - LegEntry(new, leg)
            fee == (ord.margin * market.fee_params.taker_fee_bps) \div 10000
        IN ord.reduce_only =>
               /\ reserved[u][i] = 0
               /\ r.err \notin OpeningChecks
               /\ (ReachesClose(ord, inp) /\ units > LegQty(old, leg))
                      => r.err = "InvalidCloseQty"
               /\ r.err = "InvalidCloseQty" => units > LegQty(old, leg)
               /\ (r.err = "Ok" /\ r.acc.order.status = "Executed") =>
                      /\ ReachesClose(ord, inp)
                      /\ units <= LegQty(old, leg)
                      /\ LegQty(new, leg) = LegQty(old, leg) - units
                      /\ removed = NotionalOfClose(old, leg, units)
                      /\ LegQty(new, OtherLeg(leg)) = LegQty(old, OtherLeg(leg))
                      /\ LegEntry(new, OtherLeg(leg)) = LegEntry(old, OtherLeg(leg))
                      /\ r.acc.user_margin.total_notional
                             = acc.user_margin.total_notional - removed
                      /\ r.acc.market_funding_state.open_interest
                             = acc.market_funding_state.open_interest - removed
                      /\ r.acc.market_funding_state.skew
                             = acc.market_funding_state.skew
                                  + (IF leg = "Long" THEN - removed ELSE removed)
                      /\ r.acc.user_margin.collateral_balance
                             = SettledMargin(u).collateral_balance - fee
                      /\ new.long_qty <= old.long_qty
                      /\ new.short_qty <= old.short_qty
                      /\ r.acc.market_funding_state.open_interest
                             <= acc.market_funding_state.open_interest
                      /\ r.acc.user_margin.total_notional <= acc.user_margin.total_notional

\* A reduce-only Sell closes part of a long position and pays a fee, at
\* parameters under which every opening fill fails its impact-price check.
C28_Witness ==
    \E u \in Users : \E i \in OpenOrders(u) : \E inp \in AllExecuteInputs :
        LET ord == orders[u][i]
            acc == ExecuteAccounts(u, i, inp)
            r == ExecuteCall(u, i, inp)
        IN /\ ord.reduce_only
           /\ ord.side = "Sell"
           /\ r.err = "Ok"
           /\ r.acc.order.status = "Executed"
           /\ r.acc.user_market_position.long_qty > 0
           /\ r.acc.user_market_position.long_qty < acc.user_market_position.long_qty
           /\ r.acc.user_margin.collateral_balance < acc.user_margin.collateral_balance
           /\ market.pricing_params.base_spread_bps = BPS_DENOM

-----------------------------------------------------------------------------
(* Properties of withdraw_collateral *)

\* The amounts of the withdrawals examined: those of the action, and the
\* amounts around the balances and requirements that occur.
AllWithdrawAmounts == WithdrawAmounts \cup {1, 98, 99, 100, 101, 199}

\* What the trader must keep: floor(total_notional * max_imr_bps / 10000).
RequiredMargin(u) ==
    (user_margin[u].total_notional * engine_config.max_imr_bps) \div 10000

\* The error the claim assigns to a withdrawal, "Ok" when it is to succeed.
WithdrawVerdict(u, amount) ==
    IF ~(amount > 0) THEN "InvalidAmount"
    ELSE IF ~(amount <= user_margin[u].collateral_balance) THEN "InsufficientCollateral"
    ELSE IF ~(user_margin[u].collateral_balance - amount >= RequiredMargin(u))
    THEN "MarginRequirementViolation"
    ELSE "Ok"

\* The effect of a withdrawal: on success the balance and the collateral
\* vault fall by the amount and nothing else changes; on failure nothing
\* changes.
WithdrawEffect(u, amount) ==
    LET acc == FundsAccounts(u)
        r == WithdrawCall(u, amount)
        c == Commit(r, acc)
    IN IF r.err = "Ok"
       THEN /\ c.user_margin.collateral_balance = acc.user_margin.collateral_balance - amount
            /\ VaultDelta(r, acc, "collateral_vault") = - amount
            /\ c = [acc EXCEPT !.user_margin.collateral_balance = @ - amount,
                               !.vaults["collateral_vault"] = @ - amount]
       ELSE c = acc

\* C29: withdraw guard.  withdraw_collateral(amount) by the trader succeeds
\* exactly when amount > 0, amount <= collateral_balance and
\* collateral_balance - amount >= floor(total_notional * max_imr_bps /
\* 10000); then the balance and the collateral vault fall by amount;
\* otherwise it fails with InvalidAmount, InsufficientCollateral or
\* MarginRequirementViolation and changes nothing.  What Open orders hold is
\* not in the balance, so it cannot be withdrawn.
C29_WithdrawGuard ==
    \A u \in Users : \A amount \in AllWithdrawAmounts :
        /\ WithdrawCall(u, amount).err = WithdrawVerdict(u, amount)
        /\ WithdrawEffect(u, amount)

\* The guard apart from the tokens of the vault: the verdict is the claim's
\* unless the collateral vault holds less than the amount.
C29_WithdrawGuardWhenFunded ==
    \A u \in Users : \A amount \in AllWithdrawAmounts :
        /\ vaults["collateral_vault"] >= amount
               => WithdrawCall(u, amount).err = WithdrawVerdict(u, amount)
        /\ WithdrawCall(u, amount).err
               \in {WithdrawVerdict(u, amount), "TokenInsufficientFunds"}
        /\ WithdrawEffect(u, amount)

\* A withdrawal the claim lets through fails because the collateral vault
\* holds less than the amount.
C29_VaultShort ==
    \E u \in Users : \E amount \in AllWithdrawAmounts :
        /\ WithdrawVerdict(u, amount) = "Ok"
        /\ WithdrawCall(u, amount).err = "TokenInsufficientFunds"

\* With an Open order holding a reservation, a withdrawal of the balance
\* succeeds, and one of the balance and the reservation together fails.
C29_Witness ==
    \E u \in Users : \E i \in OpenOrders(u) : \E some, all \in AllWithdrawAmounts :
        /\ reserved[u][i] > 0
        /\ WithdrawCall(u, some).err = "Ok"
        /\ all > user_margin[u].collateral_balance
        /\ all <= user_margin[u].collateral_balance + reserved[u][i]
        /\ WithdrawCall(u, all).err = "InsufficientCollateral"

\* What the Open orders of trader u hold.
RECURSIVE HeldUpTo(_, _)
HeldUpTo(u, n) == IF n = 0 THEN 0 ELSE reserved[u][n] + HeldUpTo(u, n - 1)
HeldBy(u) == HeldUpTo(u, Len(reserved[u]))

\* The collateral vault holds the balances and the reservations.
Backed ==
    \A u \in Users :
        vaults["collateral_vault"] >= user_margin[u].collateral_balance + HeldBy(u)

\* The step settles an order of trader u whose reservation is not the one
\* the parameters of the moment give (the defect of C2), or is a liquidation
\* of u with bad debt (the defect of C27).
DefectStep(u) ==
    \/ \E i \in OpenOrders(u) :
           /\ orders'[u][i].status # "Open"
           /\ reserved[u][i] # Reservation(orders[u][i])
    \/ /\ orders' = orders
       /\ user_margin'[u].total_notional < user_margin[u].total_notional
       /\ user_margin'[u].collateral_balance = 0
       /\ vaults["collateral_vault"] - vaults'["collateral_vault"]
              > SettledMargin(u).collateral_balance

\* The vault stops covering the balances and reservations only in a step
\* with one of the two defects.
C29_ShortfallOrigin ==
    [][(Backed /\ ~Backed') => \E u \in Users : DefectStep(u)]_vars

-----------------------------------------------------------------------------
(* Properties of the market configuration *)

\* The conditions on the risk and funding parameters of a market.
Conforming(risk, funding) ==
    /\ risk.imr_bps > risk.mmr_bps
    /\ risk.imr_bps <= 10000
    /\ risk.mmr_bps <= 10000
    /\ risk.max_leverage >= 1
    /\ risk.oi_cap > 0
    /\ risk.max_trade_notional > 0
    /\ funding.interval_sec > 0
    /\ funding.funding_velocity_cap_bps_per_day >= 0
    /\ funding.premium_clamp_bps >= 0

\* C30: market configuration invariant.  The market record, once created,
\* has imr_bps > mmr_bps, imr_bps <= 10000, mmr_bps <= 10000,
\* max_leverage >= 1, oi_cap > 0, max_trade_notional > 0, interval_sec > 0,
\* a velocity cap >= 0 and a premium clamp >= 0.  Every create_market and
\* update_market_params call whose parameters break one of these, or whose
\* signer is not the multisig, fails, so that the record stays as it was;
\* a call that succeeds stores the parameters it was given.
C30_MarketConfig ==
    /\ market # NoMarket => Conforming(market.risk_params, market.funding_params)
    /\ \A authority \in Admins : \A ps \in MarketParamInputs :
           LET upd == UpdateMarketParamsCall(authority, ps) IN
           /\ (~Conforming(ps.risk, ps.funding) \/ authority # global_config.multisig)
                  => /\ ~IsOk(upd)
                     /\ \A symbol_fits \in BOOLEAN :
                            ~IsOk(CreateMarketCall(authority, symbol_fits, ps))
           /\ IsOk(upd) =>
                  upd.v = [market EXCEPT !.risk_params = ps.risk,
                                         !.pricing_params = ps.pricing,
                                         !.funding_params = ps.funding,
                                         !.fee_params = ps.fee]
           /\ \A symbol_fits \in BOOLEAN :
                  LET new == CreateMarketCall(authority, symbol_fits, ps) IN
                  IsOk(new) =>
                      /\ market = NoMarket
                      /\ new.v.status = "Active"
                      /\ new.v.risk_params = ps.risk
                      /\ new.v.funding_params = ps.funding
                      /\ Conforming(new.v.risk_params, new.v.funding_params)

\* A created market whose parameters were updated: the multisig's update
\* with a maintenance margin equal to the initial margin fails with
\* InvalidRiskParams, one with a funding interval of 0 with
\* InvalidFundingParams, another signer's update with valid parameters
\* with Unauthorized, and the multisig's update with those succeeds.
C30_Witness ==
    LET good == [risk |-> RiskB, pricing |-> PricingA, funding |-> FundingA, fee |-> FeeA]
        bad == [good EXCEPT !.risk = RiskBad]
        stopped == [good EXCEPT !.funding.interval_sec = 0]
    IN /\ market # NoMarket
       /\ market.fee_params = FeeB
       /\ {good, bad, stopped} \subseteq MarketParamInputs
       /\ UpdateMarketParamsCall(global_config.multisig, bad).err = "InvalidRiskParams"
       /\ UpdateMarketParamsCall(global_config.multisig, stopped).err
              = "InvalidFundingParams"
       /\ \E other \in Admins :
              /\ other # global_config.multisig
              /\ UpdateMarketParamsCall(other, good).err = "Unauthorized"
       /\ IsOk(UpdateMarketParamsCall(global_config.multisig, good))
       /\ UpdateMarketParamsCall(global_config.multisig, good).v # market

\* Before the market is created: the multisig's create_market with
\* conforming parameters succeeds, and fails with parameters that do not
\* conform, from another signer, and while the engine is paused.
C30_CreateChecked ==
    market = NoMarket =>
        \A authority \in Admins : \A symbol_fits \in BOOLEAN : \A ps \in MarketParamInputs :
            IsOk(CreateMarketCall(authority, symbol_fits, ps)) <=>
                /\ authority = global_config.multisig
                /\ ~global_config.global_pause
                /\ IsOk(RiskParams_validate(ps.risk))
                /\ IsOk(PricingParams_validate(ps.pricing))
                /\ IsOk(FundingParams_validate(ps.funding))
                /\ IsOk(FeeParams_validate(ps.fee))
                /\ symbol_fits

-----------------------------------------------------------------------------
(* Properties of the order nonce *)

\* The nonce of trader u counts the orders placed, and the ids of the
\* orders are 0, 1, ... in the order of placement.
C31_NonceState ==
    \A u \in Users :
        /\ user_margin[u].next_order_nonce = Len(orders[u])
        /\ \A i \in 1..Len(orders[u]) : orders[u][i].id = i - 1
        /\ \A i, j \in 1..Len(orders[u]) :
               /\ i # j => orders[u][i].id # orders[u][j].id
               /\ i < j => orders[u][i].id < orders[u][j].id

\* What each call does to the nonce: a successful place_order adds 1, a
\* failed one and every other call leave it.
C31_NonceCalls ==
    \A u \in Users :
        LET nonce == user_margin[u].next_order_nonce
            Same(r, acc) == Commit(r, acc).user_margin.next_order_nonce = nonce
        IN /\ \A o \in AllOrderInputs :
                  LET c == Commit(PlaceCall(u, o), FundsAccounts(u)) IN
                  IF PlaceCall(u, o).err = "Ok"
                  THEN c.user_margin.next_order_nonce = nonce + 1 /\ c.order.id = nonce
                  ELSE c.user_margin.next_order_nonce = nonce
           /\ \A amount \in DepositAmounts : Same(DepositCall(u, amount), FundsAccounts(u))
           /\ \A amount \in WithdrawAmounts : Same(WithdrawCall(u, amount), FundsAccounts(u))
           /\ \A inp \in LiquidateInputs : Same(LiquidateCall(u, inp), LiquidateAccounts(u, inp))
           /\ \A i \in 1..Len(orders[u]) :
                  /\ Same(CancelCall(u, i, u), CancelAccounts(u, i, u))
                  /\ \A e \in Executors :
                         Same(ExecutorCancelCall(u, i, e), ExecutorCancelAccounts(u, i, e))
                  /\ \A inp \in ExecuteInputs :
                         Same(ExecuteCall(u, i, inp), ExecuteAccounts(u, i, inp))

\* A step changes the nonce of a trader only by adding 1 to it, together
\* with a new order whose id is the old nonce.
C31_NonceStep ==
    \A u \in Users :
        \/ /\ user_margin'[u].next_order_nonce = user_margin[u].next_order_nonce
           /\ Len(orders'[u]) = Len(orders[u])
        \/ /\ user_margin'[u].next_order_nonce = user_margin[u].next_order_nonce + 1
           /\ Len(orders'[u]) = Len(orders[u]) + 1
           /\ orders'[u][Len(orders'[u])].id = user_margin[u].next_order_nonce

\* C31: order nonce.  A trader's next_order_nonce starts at 0, grows by
\* exactly 1 on each successful place_order, and is left alone by failed
\* placements and by every other operation; the ids of a trader's orders
\* are pairwise distinct and increase in the order of placement.
C31_OrderNonce ==
    /\ [](C31_NonceState /\ C31_NonceCalls)
    /\ [][C31_NonceStep]_vars

\* Two orders of one trader, with ids 0 and 1 and the nonce at 2, where a
\* rejected placement leaves the nonce.
C31_Witness ==
    \E u \in Users : \E o \in AllOrderInputs :
        /\ Len(orders[u]) = 2
        /\ orders[u][1].id = 0
        /\ orders[u][2].id = 1
        /\ user_margin[u].next_order_nonce = 2
        /\ PlaceCall(u, o).err # "Ok"

-----------------------------------------------------------------------------
(* Properties of the feed normalisation *)

\* value * 10^exponent * PRICE_SCALE rounded down and rounded up, computed
\* digit by digit; a value that does not fit in 64 bits is reported as
\* U64_MODULUS.
Saturate(x) == IF x >= U64_MODULUS THEN U64_MODULUS ELSE x
RECURSIVE ExactScaled(_, _, _)
ExactScaled(x, exponent, up) ==
    IF exponent = 0 THEN Saturate(x)
    ELSE IF exponent > 0 THEN ExactScaled(Saturate(x * 10), exponent - 1, up)
    ELSE ExactScaled(IF up THEN (x + 9) \div 10 ELSE x \div 10, exponent + 1, up)
ExactFloor(value, exponent) == ExactScaled(value * PRICE_SCALE, exponent, FALSE)
ExactCeil(value, exponent) == ExactScaled(value * PRICE_SCALE, exponent, TRUE)

ExpectedPrice(p, e) ==
    IF p <= 0 THEN Err("InvalidPrice")
    ELSE IF ExactFloor(p, e) = 0 THEN Err("InvalidPrice")
    ELSE IF ExactFloor(p, e) >= U64_MODULUS THEN Err("MathOverflow")
    ELSE Ok(ExactFloor(p, e))
ExpectedConf(c, e) ==
    IF ExactCeil(c, e) >= U64_MODULUS THEN Err("MathOverflow") ELSE Ok(ExactCeil(c, e))

ScalePriceDone == call.done /\ call.fn = "scale_signed_price_to_engine"
ScaleConfDone == call.done /\ call.fn = "scale_confidence_to_engine"

RECURSIVE Pow10(_)
Pow10(n) == IF n = 0 THEN 1 ELSE 10 * Pow10(n - 1)

\* The rounding is within one unit of the exact scaled value: for a negative
\* exponent -n, price * 10^n <= p * PRICE_SCALE < (price + 1) * 10^n and
\* (conf - 1) * 10^n < c * PRICE_SCALE <= conf * 10^n.
WithinOneUnit ==
    /\ (ScalePriceDone /\ IsOk(call.out) /\ call.in.exponent \in -4..-1) =>
          LET n == Pow10(-call.in.exponent) IN
          /\ call.out.v * n <= call.in.price * PRICE_SCALE
          /\ call.in.price * PRICE_SCALE < (call.out.v + 1) * n
    /\ (ScaleConfDone /\ IsOk(call.out) /\ call.in.exponent \in -4..-1) =>
          LET n == Pow10(-call.in.exponent) IN
          /\ (call.out.v - 1) * n < call.in.conf * PRICE_SCALE
          /\ call.in.conf * PRICE_SCALE <= call.out.v * n

\* C32: the engine price of a feed record is floor(p * 10^e * PRICE_SCALE)
\* and the engine confidence is ceil(c * 10^e * PRICE_SCALE), each within one
\* unit of the exact value; a mantissa <= 0 or a converted price of 0 fails
\* with InvalidPrice, and a result that does not fit in 64 bits fails with
\* MathOverflow.
C32_FeedNormalisation ==
    /\ ScalePriceDone => call.out = ExpectedPrice(call.in.price, call.in.exponent)
    /\ ScaleConfDone => call.out = ExpectedConf(call.in.conf, call.in.exponent)
    /\ WithinOneUnit

\* The same, for the exponents whose power of ten fits in the intermediate
\* width.
PowerFits(e) == IsOk(pow10_u128(IF e >= 0 THEN e ELSE -e))
C32_NormalisationWhenPowerFits ==
    /\ (ScalePriceDone /\ PowerFits(call.in.exponent)) =>
          call.out = ExpectedPrice(call.in.price, call.in.exponent)
    /\ (ScaleConfDone /\ PowerFits(call.in.exponent)) =>
          call.out = ExpectedConf(call.in.conf, call.in.exponent)
    /\ WithinOneUnit

\* A confidence that is rounded up past the price's rounding down, a price
\* that converts to zero, and a price too large for 64 bits.
C32_RoundedUp ==
    ScaleConfDone /\ call.in.exponent < 0 /\ PowerFits(call.in.exponent)
    /\ IsOk(call.out) /\ call.out.v = ExactFloor(call.in.conf, call.in.exponent) + 1
C32_PowerTooLarge ==
    ScalePriceDone /\ call.in.price > 0 /\ ~PowerFits(call.in.exponent)
    /\ call.in.exponent < 0 /\ call.out = Err("MathOverflow")

-----------------------------------------------------------------------------
(* Properties of the settlement of an order *)

\* The call closed the order without a fill: the reservation, as the handler
\* estimates it, is credited and nothing else of the account or the market
\* moves.
ClosedUnfilled(ord, c, acc) ==
    /\ c.order.status \in {"Cancelled", "Expired"}
    /\ c.user_margin.collateral_balance =
           acc.user_margin.collateral_balance + Reservation(ord)
    /\ c.user_margin.total_notional = acc.user_margin.total_notional
    /\ c.user_market_position = acc.user_market_position
    /\ c.market_funding_state = acc.market_funding_state

\* The call filled the order: one re-credit of the reservation, the funding
\* settlement, one fee and one change of the position and the aggregates.
FilledOnce(u, ord, c, acc) ==
    LET M == ord.margin
        fee == (M * market.fee_params.taker_fee_bps) \div 10000
        credited == [acc.user_margin EXCEPT !.collateral_balance = @ + Reservation(ord)]
        settled == settle_user_funding(acc.user_market_position, FundingNow.v, credited)
        pos == acc.user_market_position
        leg == IF ord.reduce_only THEN CloseLeg(ord) ELSE LegOfSide(ord.side)
        removed == LegEntry(pos, leg) - LegEntry(c.user_market_position, leg)
    IN /\ c.order.status = "Executed"
       /\ c.user_margin.collateral_balance = settled.v.margin.collateral_balance - fee
       /\ IF ord.reduce_only
          THEN /\ removed >= 0
               /\ LegQty(c.user_market_position, leg) < LegQty(pos, leg)
               /\ c.user_margin.total_notional = acc.user_margin.total_notional - removed
               /\ c.market_funding_state.open_interest =
                      acc.market_funding_state.open_interest - removed
          ELSE /\ LegEntry(c.user_market_position, leg) = LegEntry(pos, leg) + M
               /\ c.user_margin.total_notional = acc.user_margin.total_notional + M
               /\ c.market_funding_state.open_interest =
                      acc.market_funding_state.open_interest + M
               /\ c.market_funding_state.skew =
                      acc.market_funding_state.skew + (IF ord.side = "Buy" THEN M ELSE -M)

\* A call on an order either is refused and commits nothing, or takes the
\* order from Open to a terminal status with exactly one settlement.
SettlesOnce(u, ord, r, acc) ==
    \/ Rejected(r, acc)
    \/ /\ r.err = "Ok"
       /\ ord.status = "Open"
       /\ r.acc.order.status \in Terminal
       /\ (ClosedUnfilled(ord, r.acc, acc) \/ FilledOnce(u, ord, r.acc, acc))

C33_Calls ==
    \A u \in Users : \A i \in 1..Len(orders[u]) :
        LET ord == orders[u][i] IN
        /\ \A signer \in Users :
               /\ SettlesOnce(u, ord, CancelCall(u, i, signer), CancelAccounts(u, i, signer))
               /\ CancelCall(u, i, signer).err = "Ok" =>
                      CancelCall(u, i, signer).acc.order.status = "Cancelled"
        /\ \A e \in Executors :
               /\ SettlesOnce(u, ord, ExecutorCancelCall(u, i, e),
                              ExecutorCancelAccounts(u, i, e))
               /\ ExecutorCancelCall(u, i, e).err = "Ok" =>
                      ExecutorCancelCall(u, i, e).acc.order.status = "Cancelled"
        /\ \A inp \in AllExecuteInputs :
               SettlesOnce(u, ord, ExecuteCall(u, i, inp), ExecuteAccounts(u, i, inp))
        /\ ord.status \in Terminal =>
               /\ \A signer \in Users : CancelCall(u, i, signer).err # "Ok"
               /\ \A e \in Executors : ExecutorCancelCall(u, i, e).err # "Ok"
               /\ \A inp \in AllExecuteInputs : ExecuteCall(u, i, inp).err # "Ok"

\* In one step at most one order leaves Open; an order that leaves Open
\* without a fill is credited its reservation in that step and the position
\* stays; and without an order becoming Executed in the step no leg, no
\* total_notional and no open interest grows.
LeavingOpen(u) ==
    { i \in 1..Len(orders[u]) :
        orders[u][i].status = "Open" /\ orders'[u][i].status \in Terminal }
C33_Step ==
    \A u \in Users :
        LET filled == { i \in LeavingOpen(u) : orders'[u][i].status = "Executed" } IN
        /\ Cardinality(LeavingOpen(u)) <= 1
        /\ \A i \in LeavingOpen(u) \ filled :
               /\ user_margin'[u].collateral_balance =
                      user_margin[u].collateral_balance + Reservation(orders[u][i])
               /\ user_market_position'[u] = user_market_position[u]
               /\ user_margin'[u].total_notional = user_margin[u].total_notional
        /\ filled = {} =>
               /\ user_market_position'[u].long_qty <= user_market_position[u].long_qty
               /\ user_market_position'[u].short_qty <= user_market_position[u].short_qty
               /\ user_margin'[u].total_notional <= user_margin[u].total_notional
               /\ market_funding_state'.open_interest <= market_funding_state.open_interest

\* C33: at-most-once settlement of an order.  Over any sequence of
\* cancel_order, cancel_order_by_executor and execute_order calls, retries
\* included, the reservation of an order is re-credited once, by the call
\* that takes the order out of Open, and never again; and a fill (position,
\* total_notional, open interest, skew and fee) is applied for an order at
\* most once.
C33_SettledOnce == []C33_Calls /\ [][C33_Step]_vars

\* C33 witness: one order already filled, on which every retry is refused,
\* and a second Open order that an owner's cancel, an executor's cancel and
\* an execution would each settle.
C33_Witness ==
    \E u \in Users : \E i, j \in 1..Len(orders[u]) : \E inp \in ExecuteInputs :
        /\ orders[u][i].status = "Executed"
        /\ ExecutorCancelCall(u, i, "k1").err = "OrderNotOpen"
        /\ orders[u][j].status = "Open"
        /\ CancelCall(u, j, u).err = "Ok"
        /\ ExecutorCancelCall(u, j, "k1").err = "Ok"
        /\ ExecuteCall(u, j, inp).err = "Ok"
        /\ ExecuteCall(u, j, inp).acc.order.status = "Executed"

-----------------------------------------------------------------------------
(* Properties of the collateral vault *)

\* What the collateral vault owes: every trader's collateral_balance and the
\* reservations held for the trader's Open orders.
RECURSIVE OwedTo(_)
OwedTo(users) ==
    IF users = {} THEN 0
    ELSE LET u == CHOOSE x \in users : TRUE
         IN user_margin[u].collateral_balance + HeldBy(u) + OwedTo(users \ {u})

\* C34: collateral vault solvency.  In every reachable state the token
\* balance of the collateral vault is at least the sum over the traders of
\* collateral_balance plus the reservations held for their Open orders.
C34_VaultSolvency == vaults["collateral_vault"] >= OwedTo(Users)

\* A step without the defect of C2 or of C27 keeps the vault solvent.
C34_SolvencyPreserved ==
    [][(C34_VaultSolvency /\ ~(\E u \in Users : DefectStep(u))) => C34_VaultSolvency']_vars

\* With the vault solvent no withdrawal fails for lack of tokens in the vault.
C34_PaysInFull ==
    C34_VaultSolvency =>
        \A u \in Users : \A amount \in 1..MaxBalance :
            WithdrawCall(u, amount).err # "TokenInsufficientFunds"

-----------------------------------------------------------------------------
(* Properties of the aggregates *)

\* The entry notional of the long legs and of the short legs of all the
\* positions in the market.
RECURSIVE LongEntries(_)
LongEntries(users) ==
    IF users = {} THEN 0
    ELSE LET u == CHOOSE x \in users : TRUE
         IN user_market_position[u].long_entry_notional + LongEntries(users \ {u})
RECURSIVE ShortEntries(_)
ShortEntries(users) ==
    IF users = {} THEN 0
    ELSE LET u == CHOOSE x \in users : TRUE
         IN user_market_position[u].short_entry_notional + ShortEntries(users \ {u})

\* C35: market aggregates match the positions.  In every reachable state
\* open_interest equals the sum over the positions of long_entry_notional +
\* short_entry_notional and skew equals the sum of long_entry_notional minus
\* the sum of short_entry_notional; hence |skew| <= open_interest.
C35_MarketAggregates ==
    /\ market_funding_state.open_interest = LongEntries(Users) + ShortEntries(Users)
    /\ market_funding_state.skew = LongEntries(Users) - ShortEntries(Users)
    /\ Abs(market_funding_state.skew) <= market_funding_state.open_interest

\* C35 witness: a short leg that a fill opened and a reduce-only buy has
\* partly closed, leaving a negative skew.
C35_Witness ==
    \E u \in Users : \E i \in 1..Len(orders[u]) :
        /\ orders[u][i].reduce_only
        /\ orders[u][i].side = "Buy"
        /\ orders[u][i].status = "Executed"
        /\ user_market_position[u].short_entry_notional > 0
        /\ market_funding_state.skew = -user_market_position[u].short_entry_notional
        /\ market_funding_state.open_interest < AnOrder.margin

\* The entry notional of the trader's position.
EntryNotional(pos) == pos.long_entry_notional + pos.short_entry_notional

C36_AggregateState ==
    \A u \in Users :
        /\ user_margin[u].total_notional = EntryNotional(user_market_position[u])
        /\ user_margin[u].total_notional = 0 <=>
               /\ user_market_position[u].long_entry_notional = 0
               /\ user_market_position[u].short_entry_notional = 0

\* total_notional changes in a step only by the fill of an order of the
\* trader (plus the order's margin), by a reduce-only execution or by a
\* liquidation (minus the entry notional removed from the position).
C36_AggregateStep ==
    \A u \in Users :
        LET before == user_margin[u].total_notional
            after == user_margin'[u].total_notional
            removed == EntryNotional(user_market_position[u])
                           - EntryNotional(user_market_position'[u])
            executed == { i \in OpenOrders(u) : orders'[u][i].status = "Executed" }
        IN after # before =>
               \/ \E i \in executed :
                      /\ ~orders[u][i].reduce_only
                      /\ after = before + orders[u][i].margin
               \/ \E i \in executed :
                      /\ orders[u][i].reduce_only
                      /\ removed > 0
                      /\ after = before - removed
               \/ /\ orders' = orders
                  /\ removed > 0
                  /\ after = before - removed
                  /\ \E inp \in AllLiquidateInputs :
                         /\ LiquidateCall(u, inp).err = "Ok"
                         /\ LiquidateCall(u, inp).acc.user_margin = user_margin'[u]

\* C36: account aggregate matches the positions.  In every reachable state
\* a trader's total_notional equals the sum over the trader's positions of
\* long_entry_notional + short_entry_notional and is zero exactly when the
\* trader holds no position notional; it changes only by a successful fill
\* (plus the order's margin), a reduce-only execution or a liquidation
\* (minus the removed entry notional).
C36_AccountAggregate == []C36_AggregateState /\ [][C36_AggregateStep]_vars

\* C36 witness: a position partly liquidated, with the account's
\* total_notional at what is left of the filled order's margin.
C36_Witness ==
    \E u \in Users : \E i \in 1..Len(orders[u]) :
        /\ orders[u][i].status = "Executed"
        /\ ~orders[u][i].reduce_only
        /\ user_margin[u].total_notional > 0
        /\ user_margin[u].total_notional < orders[u][i].margin
        /\ \A j \in 1..Len(orders[u]) : ~orders[u][j].reduce_only

-----------------------------------------------------------------------------
(* Properties of a fresh fill *)

\* lib.rs: liquidate on the accounts c that an execution has committed, in
\* the same second, by the executor and with the rebate account of input l.
LiquidateAfter(c, l) ==
    liquidate([c EXCEPT !.order = NoOrder,
                        !.user = l.executor,
                        !.keeper_rebate =
                            IF l.rebate = c.keeper_rebate.keeper THEN c.keeper_rebate
                            ELSE [keeper |-> l.rebate, amount |-> keeper_rebate[l.rebate]]],
              l.executor, now, c.market.market_id, l.leg, l.close_qty)

\* The execution of order i with input inp opens or adds to a position.
FreshFill(u, i, inp) ==
    /\ ~orders[u][i].reduce_only
    /\ ExecuteCall(u, i, inp).err = "Ok"
    /\ ExecuteCall(u, i, inp).acc.order.status = "Executed"

\* C37: a fresh fill is not liquidatable.  Immediately after a successful
\* non-reduce-only execute_order, with no time elapsed, no parameter change
\* and no other operation on the account, no liquidate call on the account
\* succeeds, and a keeper's call with its own rebate account and a positive
\* close_qty fails with NotLiquidatable: the post-fee collateral is at least
\* floor(total_notional * imr_bps / 10000), which is at least
\* floor(total_notional * mmr_bps / 10000).
C37_FreshFillNotLiquidatable ==
    \A u \in Users : \A i \in OpenOrders(u) : \A inp \in AllExecuteInputs :
        FreshFill(u, i, inp) =>
            LET c == ExecuteCall(u, i, inp).acc
                tn == c.user_margin.total_notional
            IN /\ c.user_margin.collateral_balance
                      >= (tn * market.risk_params.imr_bps) \div 10000
               /\ (tn * market.risk_params.imr_bps) \div 10000
                      >= (tn * market.risk_params.mmr_bps) \div 10000
               /\ \A l \in AllLiquidateInputs :
                      /\ LiquidateAfter(c, l).err # "Ok"
                      /\ (IsKeeper(l.executor) /\ l.rebate = l.executor /\ l.close_qty > 0)
                             => LiquidateAfter(c, l).err = "NotLiquidatable"

\* C37 witness: a fill that leaves the collateral just above the initial
\* margin of the new total_notional, onto a position that already exists,
\* and a keeper's liquidate call on it that is refused as NotLiquidatable.
C37_Witness ==
    \E u \in Users : \E i \in OpenOrders(u) : \E inp \in ExecuteInputs :
        /\ FreshFill(u, i, inp)
        /\ user_margin[u].total_notional > 0
        /\ LiquidateAfter(ExecuteCall(u, i, inp).acc,
                          [executor |-> "k1", rebate |-> "k1", leg |-> "Long",
                           close_qty |-> 100]).err = "NotLiquidatable"

-----------------------------------------------------------------------------
(* Properties of the owner's cancel *)

\* The owner's cancel of order i succeeds and closes the order.
OwnerCancels(u, i) ==
    /\ CancelCall(u, i, u).err = "Ok"
    /\ CancelCall(u, i, u).acc.order.status = "Cancelled"
    /\ CancelCall(u, i, u).acc.user_margin.collateral_balance
           = user_margin[u].collateral_balance + Reservation(orders[u][i])

\* lib.rs: cancel_order by the owner, with the market in status s, the
\* local halted flag h and the global pause p.
CancelIn(u, i, s, h, p) ==
    cancel_order([CancelAccounts(u, i, u) EXCEPT !.market.status = s,
                                                 !.market_funding_state.halted = h,
                                                 !.global_config.global_pause = p])

C38_CancelEnabled ==
    \A u \in Users : \A i \in OpenOrders(u) :
        /\ OwnerCancels(u, i)
        /\ \A s \in {"Active", "Paused", "Halted"} : \A h, p \in BOOLEAN :
               /\ CancelIn(u, i, s, h, p).err = "Ok"
               /\ CancelIn(u, i, s, h, p).acc.order.status = "Cancelled"
               /\ CancelIn(u, i, s, h, p).acc.user_margin
                      = CancelCall(u, i, u).acc.user_margin

\* A step in which the owner's cancel of an Open order is taken leads to the
\* state the call commits, so the step is there to take.
C38_CancelStep ==
    \A u \in Users : \A i \in OpenOrders(u) :
        (orders'[u][i].status = "Cancelled" /\ \A j \in OpenOrders(u) \ {i} : orders'[u][j] = orders[u][j])
            => /\ user_margin'[u].collateral_balance
                      = user_margin[u].collateral_balance + Reservation(orders[u][i])
               /\ reserved'[u][i] = 0

\* C38: an Open order can always be closed out by its owner.  In every
\* reachable state, for every Open order, cancel_order called by the owner
\* succeeds whatever the global pause, the market status, the local halted
\* flag and the order's TTL, so every Open order can reach a terminal status
\* and no reservation is stranded.
C38_OwnerCanCancel == []C38_CancelEnabled /\ [][C38_CancelStep]_vars

\* C38 witness: an Open order past its TTL while the protocol is paused and
\* the market is not Active, which the owner's cancel closes.
C38_Witness ==
    \E u \in Users : \E i \in OpenOrders(u) :
        /\ global_config.global_pause
        /\ market.status # "Active"
        /\ now > orders[u][i].expires_at
        /\ OwnerCancels(u, i)

-----------------------------------------------------------------------------
(* Properties of the funding accrual *)

SplitDone == call.done /\ call.fn = "update_funding_index twice"
Ascending == call.in.fs.last_update_ts < call.in.t1 /\ call.in.t1 < call.in.t2

\* A call never moves last_update_ts back, and a call with now at or before
\* last_update_ts changes nothing.
C40_ClockKept ==
    /\ SplitDone =>
           /\ call.out.first.v.last_update_ts >= call.in.fs.last_update_ts
           /\ call.out.split.v.last_update_ts >= call.out.first.v.last_update_ts
           /\ call.in.t1 <= call.in.fs.last_update_ts => call.out.first.v = call.in.fs
           /\ call.in.t2 <= call.out.first.v.last_update_ts =>
                  call.out.split.v = call.out.first.v
    /\ (SplitDone /\ Ascending) =>
           call.out.split.v.last_update_ts = call.out.single.v.last_update_ts

\* C40: funding accrual does not depend on how often the index is updated.
\* With skew, oi_cap and funding parameters unchanged, update_funding_index
\* at t1 and then at t2 (last_update_ts < t1 < t2) yields the same
\* funding_index and last_update_ts as a single call at t2; last_update_ts
\* never decreases and a call with now <= last_update_ts changes nothing.
C40_UpdateFrequency ==
    /\ (SplitDone /\ Ascending) => call.out.split = call.out.single
    /\ C40_ClockKept

\* The two calls never accrue more than the single call, and never in the
\* other direction.
C40_SplitAccruesNoMore ==
    (SplitDone /\ Ascending) =>
        LET from == call.in.fs.funding_index
            split == call.out.split.v.funding_index - from
            single == call.out.single.v.funding_index - from
        IN /\ Abs(split) <= Abs(single)
           /\ single >= 0 => split >= 0
           /\ single <= 0 => split <= 0

\* Updating at one-second steps accrues nothing where one update accrues.
C40_Suppressed ==
    /\ SplitDone /\ Ascending
    /\ call.in.t1 = 1 /\ call.in.t2 = 2
    /\ call.out.split.v.funding_index = call.in.fs.funding_index
    /\ \E t \in SplitTimes :
           update_funding_index(call.in.fs, t, call.in.params, call.in.oi_cap).v.funding_index
               # call.in.fs.funding_index

-----------------------------------------------------------------------------
(* Properties of the order of two fills *)

PairDone == call.done /\ call.fn = "execute_order pair"
BothWays ==
    /\ PairDone
    /\ call.out.ab.first.err = "Ok" /\ call.out.ab.second.err = "Ok"
    /\ call.out.ba.first.err = "Ok" /\ call.out.ba.second.err = "Ok"
    /\ call.out.ab.second.order.status = "Executed"
    /\ call.out.ab.first.order.status = "Executed"

\* C39: order independence of fills.  For two Open non-reduce-only orders
\* of two traders on one market, executed at the same timestamp with the
\* same oracle input, if both executions succeed in the order A then B and
\* in the order B then A, the resulting market funding state, both positions
\* and both margin accounts are the same in the two orders; and after every
\* successful execution open_interest is at most oi_cap.
C39_OrderIndependence ==
    /\ BothWays =>
           /\ call.out.ab.second.shared.market_funding_state
                  = call.out.ba.second.shared.market_funding_state
           /\ call.out.ab.first.position = call.out.ba.second.position
           /\ call.out.ab.first.margin = call.out.ba.second.margin
           /\ call.out.ab.second.position = call.out.ba.first.position
           /\ call.out.ab.second.margin = call.out.ba.first.margin
    /\ PairDone =>
           \A run \in {call.out.ab, call.out.ba} : \A o \in {run.first, run.second} :
               o.shared.market_funding_state.open_interest <= market.risk_params.oi_cap

\* The vaults, the pool and the executor's rebate account end the same too.
C39_SharedAccountsAgree ==
    BothWays => call.out.ab.second.shared = call.out.ba.second.shared

\* C39 witness: trader A holds a long position with funding to settle, the
\* clock has moved since the last index update, the price band depends on
\* the skew, and both orders fill in either order.
C39_Witness ==
    /\ BothWays
    /\ call.in.now_ > call.in.fs.last_update_ts
    /\ call.in.a.position.long_qty > 0
    /\ call.in.pricing.skew_coeff_bps > 0
    /\ call.out.ab.second.shared.market_funding_state.funding_index
           # call.in.fs.funding_index
    /\ call.out.ab.first.margin.collateral_balance
           # call.in.a.margin.collateral_balance
    /\ call.in.a.order.side # call.in.b.order.side

\* The order matters for which execution succeeds: B fills when it comes
\* first and is refused when it comes second.
C39_SuccessDependsOnOrder ==
    /\ PairDone
    /\ call.out.ab.first.err = "Ok"
    /\ call.out.ab.second.err # "Ok"
    /\ call.out.ba.first.err = "Ok"
====
